---- MODULE Spec2Model ----
(***************************************************************************)
(* A model of the csv-campaign-processor pipeline:                         *)
(*   csv-parser.js        parseProspectsCSV / validateAndCleanProspect     *)
(*   url-generator.js     generateDemoUrls / groupUrlsByProspect /         *)
(*                        updateWithShortUrls                              *)
(*   bulk-uploader.js     bulkUploadToShortener / createFallbackResults /  *)
(*                        testShortenerConnection                          *)
(*   message-generator.js generateWhatsAppMessages                         *)
(*   main.js              main / exportToCsv                               *)
(* JavaScript strings are TLA+ strings; the string functions the code      *)
(* calls (trim, toLowerCase, replace, includes, padStart) are computed     *)
(* character by character.                                                 *)
(***************************************************************************)
EXTENDS Integers, Sequences, FiniteSets, TLC

VARIABLES
    \* ---- inputs of one run of main() ----
    argv,               \* parsed command line: businessType, dryRun, skipShortener
    businessConfig,     \* content of config/business-types.json
    templates,          \* content of config/message-templates.json
    csvRows,            \* the rows the CSV stream has delivered so far
    \* ---- main() and the functions it awaits ----
    pc,                 \* position of main()
    rowCount,           \* parseProspectsCSV: rowCount
    prospects,          \* parseProspectsCSV: prospects
    errors,             \* parseProspectsCSV: errors
    urlMappings,        \* main: urlMappings
    groupedUrls,        \* main: groupedUrls / updatedGroupedUrls (same object)
    step3,              \* main, step 3: connectionOk, the caught bulk error, and
                        \* the answer testShortenerConnection is returning from
    attempt,            \* bulkUploadToShortener: attempt
    lastError,          \* bulkUploadToShortener: lastError
    net,                \* effects on the outside: requests sent, sleeps, exit
    shortenedResults,   \* main: shortenedResults
    joinStats,          \* updateWithShortUrls: updatedCount, failedCount
    prospectsWithMessages, \* main: prospectsWithMessages
    exported,           \* rows written by exportToCsv
    \* ---- a single function applied to an enumerated input ----
    fnInput, fnOutput, fnPhase

vars == << argv, businessConfig, templates, csvRows, pc, rowCount, prospects,
           errors, urlMappings, groupedUrls, step3, attempt, lastError, net,
           shortenedResults, joinStats, prospectsWithMessages, exported,
           fnInput, fnOutput, fnPhase >>

pipeVars == << argv, businessConfig, templates, csvRows, pc, rowCount, prospects,
               errors, urlMappings, groupedUrls, step3, attempt, lastError, net,
               shortenedResults, joinStats, prospectsWithMessages, exported >>

fnVars == << fnInput, fnOutput, fnPhase >>

-----------------------------------------------------------------------------
(* JavaScript string primitives                                            *)

Char(s, i) == SubSeq(s, i, i)

UpperChars == "ABCDEFGHIJKLMNOPQRSTUVWXYZ"
LowerChars == "abcdefghijklmnopqrstuvwxyz"
DigitChars == "0123456789"

\* \s of a JavaScript regular expression, and what String.prototype.trim strips
IsSpace(c) == c \in {" ", "\t", "\n", "\r"}

IsDigit(c) == \E i \in 1..Len(DigitChars) : Char(DigitChars, i) = c

\* the least element of a non-empty set of integers
Least(S) == CHOOSE i \in S : \A j \in S : i <= j

\* concatenation of the strings seq[lo..hi]
RECURSIVE ConcatRange(_, _, _)
ConcatRange(seq, lo, hi) ==
    IF lo > hi THEN ""
    ELSE IF lo = hi THEN seq[lo]
    ELSE LET mid == (lo + hi) \div 2
         IN  ConcatRange(seq, lo, mid) \o ConcatRange(seq, mid + 1, hi)

ConcatAll(seq) == ConcatRange(seq, 1, Len(seq))

\* the string made of f(c) for every character c of s, in order
MapChars(f(_), s) == ConcatAll([i \in 1..Len(s) |-> f(Char(s, i))])

LowerChar(c) ==
    LET hits == {i \in 1..Len(UpperChars) : Char(UpperChars, i) = c}
    IN  IF hits = {} THEN c ELSE Char(LowerChars, Least(hits))

ToLowerCase(s) == MapChars(LowerChar, s)

TrimStart(s) ==
    LET marks == {i \in 1..Len(s) : ~IsSpace(Char(s, i))}
    IN  IF marks = {} THEN "" ELSE SubSeq(s, Least(marks), Len(s))

TrimEnd(s) ==
    LET marks == {i \in 1..Len(s) : ~IsSpace(Char(s, i))}
    IN  IF marks = {} THEN "" ELSE SubSeq(s, 1, -Least({-i : i \in marks}))

Trim(s) == TrimEnd(TrimStart(s))

\* s.replace(/\s+/g, ' '): a run of white space becomes one space
CollapseSpaces(s) ==
    ConcatAll([i \in 1..Len(s) |->
                 IF ~IsSpace(Char(s, i)) THEN Char(s, i)
                 ELSE IF i > 1 /\ IsSpace(Char(s, i - 1)) THEN "" ELSE " "])

\* s.replace(/\D/g, '')
DigitsOnly(s) == MapChars(LAMBDA c : IF IsDigit(c) THEN c ELSE "", s)

\* s.includes(sub)
Includes(s, sub) ==
    \E i \in 1..(Len(s) - Len(sub) + 1) : SubSeq(s, i, i + Len(sub) - 1) = sub

StartsWith(s, pre) == Len(s) >= Len(pre) /\ SubSeq(s, 1, Len(pre)) = pre

\* s.padStart(width, '0')
RECURSIVE PadStartZero(_, _)
PadStartZero(s, width) ==
    IF Len(s) >= width THEN s ELSE PadStartZero("0" \o s, width)

\* array.join(sep) of an array of strings
RECURSIVE Join(_, _)
Join(seq, sep) ==
    IF seq = << >> THEN ""
    ELSE IF Len(seq) = 1 THEN seq[1]
    ELSE seq[1] \o sep \o Join(Tail(seq), sep)

\* array.map(f) where the array is a sequence
MapSeq(f(_), seq) == [i \in 1..Len(seq) |-> f(seq[i])]

\* array.push(...items)
RECURSIVE Flatten(_)
Flatten(seqs) ==
    IF seqs = << >> THEN << >> ELSE Head(seqs) \o Flatten(Tail(seqs))

-----------------------------------------------------------------------------
(* csv-parser.js: the Record Validator                                     *)

\* The outcome of a function that returns or throws.
Ok(v)     == [ok |-> TRUE,  value |-> v]
Throw(msg) == [ok |-> FALSE, message |-> msg]

\* A property name every object literal inherits from Object.prototype reads
\* as a (truthy) function or object; the model keeps the string it prints as.
ObjectPrototype ==
    [ constructor    |-> "function Object() { [native code] }",
      toString       |-> "function toString() { [native code] }",
      valueOf        |-> "function valueOf() { [native code] }",
      hasOwnProperty |-> "function hasOwnProperty() { [native code] }",
      __proto__      |-> "[object Object]" ]

\* obj[key] for an object literal: own property, else inherited, else undefined
HasProperty(obj, key) == key \in DOMAIN obj \/ key \in DOMAIN ObjectPrototype
GetProperty(obj, key) ==
    IF key \in DOMAIN obj THEN obj[key] ELSE ObjectPrototype[key]

requiredFields == << "company", "city", "phone", "business_type" >>

\* FieldMissing without the trim: a whitespace-only value counts as present
FieldMissing_NoTrim(row, field) ==
    \/ field \notin DOMAIN row
    \/ row[field] = ""

\* !row[field] || row[field].trim() === ''
FieldMissing(row, field) ==
    \/ field \notin DOMAIN row
    \/ row[field] = ""
    \/ Trim(row[field]) = ""

\* cleanCompanyName that cuts a long name to 100 characters
cleanCompanyName_Truncates(company) ==
    IF company = "" \/ Len(Trim(company)) = 0
    THEN Throw("Company name cannot be empty")
    ELSE LET cleaned == CollapseSpaces(Trim(company))
         IN  IF Len(cleaned) > 100
             THEN Ok(SubSeq(cleaned, 1, 100))
             ELSE Ok(cleaned)

cleanCompanyName(company) ==
    IF company = "" \/ Len(Trim(company)) = 0
    THEN Throw("Company name cannot be empty")
    ELSE LET cleaned == CollapseSpaces(Trim(company))
         IN  IF Len(cleaned) > 100
             THEN Throw("Company name too long (max 100 characters)")
             ELSE Ok(cleaned)

cleanCityName(city) ==
    IF city = "" \/ Len(Trim(city)) = 0
    THEN Throw("City name cannot be empty")
    ELSE LET cleaned == CollapseSpaces(Trim(city))
         IN  IF Len(cleaned) > 50
             THEN Throw("City name too long (max 50 characters)")
             ELSE Ok(cleaned)

cleanPhoneNumber(phone) ==
    IF phone = "" \/ Len(Trim(phone)) = 0
    THEN Throw("Phone number cannot be empty")
    ELSE LET cleaned == Trim(phone)
             digits  == DigitsOnly(cleaned)
         IN  IF Len(digits) < 10
             THEN Throw("Phone number must contain at least 10 digits")
             ELSE Ok(cleaned)

validTypes == << "plumbing", "landscaping", "general" >>

corrections ==
    [ plumber     |-> "plumbing",
      plumbers    |-> "plumbing",
      landscape   |-> "landscaping",
      landscaper  |-> "landscaping",
      landscapers |-> "landscaping",
      garden      |-> "landscaping",
      gardening   |-> "landscaping",
      other       |-> "general",
      misc        |-> "general",
      service     |-> "general" ]

SeqIncludes(seq, x) == \E i \in 1..Len(seq) : seq[i] = x

validateBusinessType(businessType) ==
    IF businessType = "" \/ Len(Trim(businessType)) = 0
    THEN Throw("Business type cannot be empty")
    ELSE LET cleaned == ToLowerCase(Trim(businessType))
         IN  IF ~SeqIncludes(validTypes, cleaned)
             THEN IF HasProperty(corrections, cleaned)
                  THEN Ok(GetProperty(corrections, cleaned))
                  ELSE Throw("Invalid business type: \"" \o businessType
                             \o "\". Must be one of: " \o Join(validTypes, ", "))
             ELSE Ok(cleaned)

\* ProspectId keeping only the last four digits of the row number
ProspectId_LastFour(rowNumber) ==
    "prospect_" \o PadStartZero(ToString(rowNumber % 10000), 4)

\* `prospect_${rowNumber.toString().padStart(4, '0')}`
ProspectId(rowNumber) ==
    "prospect_" \o PadStartZero(ToString(rowNumber), 4)

validateAndCleanProspect(row, rowNumber) ==
    LET missing == SelectSeq(requiredFields, LAMBDA f : FieldMissing(row, f))
    IN  IF Len(missing) > 0
        THEN Throw("Missing required fields: " \o Join(missing, ", "))
        ELSE
        LET company       == cleanCompanyName(row.company)
            city          == cleanCityName(row.city)
            phone         == cleanPhoneNumber(row.phone)
            business_type == validateBusinessType(row.business_type)
        IN  IF ~company.ok THEN company
            ELSE IF ~city.ok THEN city
            ELSE IF ~phone.ok THEN phone
            ELSE IF ~business_type.ok THEN business_type
            ELSE Ok([ id            |-> ProspectId(rowNumber),
                      company       |-> company.value,
                      city          |-> city.value,
                      phone         |-> phone.value,
                      business_type |-> business_type.value,
                      original_row  |-> rowNumber ])

-----------------------------------------------------------------------------
(* url-generator.js: Link Generator, Link Grouper, Result Joiner           *)

\* application/x-www-form-urlencoded serialisation of one character
\* (URLSearchParams): letters, digits and * - . _ are kept, a space becomes
\* "+", every other character is percent-encoded.
UnreservedChars == UpperChars \o LowerChars \o DigitChars \o "*-._"

PercentTable ==
    << <<"!", "%21">>, <<"\"", "%22">>, <<"#", "%23">>, <<"$", "%24">>,
       <<"%", "%25">>, <<"&", "%26">>, <<"'", "%27">>, <<"(", "%28">>,
       <<")", "%29">>, <<"+", "%2B">>, <<",", "%2C">>, <<"/", "%2F">>,
       <<":", "%3A">>, <<";", "%3B">>, <<"=", "%3D">>, <<"?", "%3F">>,
       <<"@", "%40">>, <<"{", "%7B">>, <<"}", "%7D">>, <<"\t", "%09">>,
       <<"\n", "%0A">>, <<"\r", "%0D">> >>

FormEncodeChar(c) ==
    IF \E i \in 1..Len(UnreservedChars) : Char(UnreservedChars, i) = c THEN c
    ELSE IF c = " " THEN "+"
    ELSE IF \E i \in 1..Len(PercentTable) : PercentTable[i][1] = c
         THEN PercentTable[CHOOSE i \in 1..Len(PercentTable) : PercentTable[i][1] = c][2]
         ELSE "%3F"

FormEncode(s) == MapChars(FormEncodeChar, s)

\* position of the first occurrence of the character c in s, 0 if none
IndexOf(s, c) ==
    LET hits == {i \in 1..Len(s) : Char(s, i) = c}
    IN  IF hits = {} THEN 0 ELSE Least(hits)

\* s.split(c)
RECURSIVE Split(_, _)
Split(s, c) ==
    LET i == IndexOf(s, c)
    IN  IF i = 0 THEN << s >>
        ELSE << SubSeq(s, 1, i - 1) >> \o Split(SubSeq(s, i + 1, Len(s)), c)

\* new URL(baseUrl): the scheme and host of an http(s) URL, its path ("/" when
\* the URL has none) and its query as a list of <<name, value>> pairs.
\* Only http and https URLs are told apart from strings that do not parse.
UrlSchemeLen(baseUrl) ==
    IF StartsWith(baseUrl, "https://") THEN 8
    ELSE IF StartsWith(baseUrl, "http://") THEN 7
    ELSE 0

UrlParses(baseUrl) ==
    /\ UrlSchemeLen(baseUrl) > 0
    /\ Len(baseUrl) > UrlSchemeLen(baseUrl)
    /\ Char(baseUrl, UrlSchemeLen(baseUrl) + 1) \notin {"/", "?", "#", " "}

ParseUrl(baseUrl) ==
    LET q      == IndexOf(baseUrl, "?")
        front  == IF q = 0 THEN baseUrl ELSE SubSeq(baseUrl, 1, q - 1)
        query  == IF q = 0 THEN "" ELSE SubSeq(baseUrl, q + 1, Len(baseUrl))
        after  == SubSeq(front, UrlSchemeLen(baseUrl) + 1, Len(front))
        pairs  == IF query = "" THEN << >>
                  ELSE MapSeq(LAMBDA kv :
                                LET e == IndexOf(kv, "=")
                                IN  IF e = 0 THEN << kv, "" >>
                                    ELSE << SubSeq(kv, 1, e - 1),
                                            SubSeq(kv, e + 1, Len(kv)) >>,
                              Split(query, "&"))
    IN  [ front  |-> IF IndexOf(after, "/") = 0 THEN front \o "/" ELSE front,
          params |-> pairs ]

\* url.searchParams.set(name, value): the first pair of that name takes the
\* value and the other pairs of that name are removed; with no such pair,
\* the pair is appended.
SearchParamsSet(params, name, value) ==
    IF \E i \in 1..Len(params) : params[i][1] = name
    THEN LET first == CHOOSE i \in 1..Len(params) :
                        /\ params[i][1] = name
                        /\ \A j \in 1..(i - 1) : params[j][1] # name
             keep  == SelectSeq([i \in 1..Len(params) |-> << i, params[i] >>],
                                LAMBDA e : e[2][1] # name \/ e[1] = first)
         IN  MapSeq(LAMBDA e : IF e[1] = first THEN << name, value >> ELSE e[2], keep)
    ELSE Append(params, << name, value >>)

\* url.toString()
SerializeUrl(url) ==
    url.front \o
    (IF url.params = << >> THEN ""
     ELSE "?" \o Join(MapSeq(LAMBDA kv : FormEncode(kv[1]) \o "=" \o FormEncode(kv[2]),
                             url.params), "&"))

createPersonalizedUrl(baseUrl, company, city, phone) ==
    IF ~UrlParses(baseUrl)
    THEN Throw("Invalid base URL: " \o baseUrl)
    ELSE LET url == ParseUrl(baseUrl)
             p1  == SearchParamsSet(url.params, "company", company)
             p2  == SearchParamsSet(p1, "city", city)
             p3  == SearchParamsSet(p2, "phone", phone)
         IN  Ok(SerializeUrl([front |-> url.front, params |-> p3]))

\* SiteMapping with a 1-based site_index
SiteMapping_OneBased(prospect, site, index) ==
    [ original_url |->
          createPersonalizedUrl(site.url, prospect.company, prospect.city,
                                prospect.phone).value,
      metadata |-> [ prospect_id       |-> prospect.id,
                     business_type     |-> prospect.business_type,
                     site_index        |-> index + 1,
                     site_display_name |-> site.display_name,
                     company           |-> prospect.company ] ]

\* sites.forEach((site, index) => ...): index is 0-based
SiteMapping(prospect, site, index) ==
    [ original_url |->
          createPersonalizedUrl(site.url, prospect.company, prospect.city,
                                prospect.phone).value,
      metadata |-> [ prospect_id       |-> prospect.id,
                     business_type     |-> prospect.business_type,
                     site_index        |-> index,
                     site_display_name |-> site.display_name,
                     company           |-> prospect.company ] ]

\* generateUrlsForProspect that keeps the links built before a bad base URL
generateUrlsForProspect_KeepsPartial(prospect, config) ==
    IF prospect.business_type \notin DOMAIN config
    THEN Throw("No configuration found for business type: " \o prospect.business_type)
    ELSE LET sites == config[prospect.business_type].sites
             good  == { i \in 1..Len(sites) : \A j \in 1..i : UrlParses(sites[j].url) }
         IN  IF Len(sites) = 0
             THEN Throw("No demo sites configured for business type: "
                        \o prospect.business_type)
             ELSE Ok([i \in 1..Cardinality(good) |-> SiteMapping(prospect, sites[i], i - 1)])

generateUrlsForProspect(prospect, config) ==
    IF prospect.business_type \notin DOMAIN config
    THEN Throw("No configuration found for business type: " \o prospect.business_type)
    ELSE LET sites == config[prospect.business_type].sites
         IN  IF Len(sites) = 0
             THEN Throw("No demo sites configured for business type: "
                        \o prospect.business_type)
             ELSE IF \E i \in 1..Len(sites) : ~UrlParses(sites[i].url)
             THEN Throw("Invalid base URL: " \o
                        sites[CHOOSE i \in 1..Len(sites) :
                                /\ ~UrlParses(sites[i].url)
                                /\ \A j \in 1..(i - 1) : UrlParses(sites[j].url)].url)
             ELSE Ok([i \in 1..Len(sites) |-> SiteMapping(prospect, sites[i], i - 1)])

\* generateDemoUrls numbering the links by the batch counter totalUrls
generateDemoUrls_BatchCounter(prospectList, config) ==
    LET flat == Flatten(MapSeq(LAMBDA p :
                                 LET r == generateUrlsForProspect(p, config)
                                 IN  IF r.ok THEN r.value ELSE << >>,
                               prospectList))
    IN  [k \in 1..Len(flat) |-> [flat[k] EXCEPT !.metadata.site_index = k - 1]]

\* for (const prospect of prospects) { try { push(...) } catch { log } }
generateDemoUrls(prospectList, config) ==
    Flatten(MapSeq(LAMBDA p :
                     LET r == generateUrlsForProspect(p, config)
                     IN  IF r.ok THEN r.value ELSE << >>,
                   prospectList))

\* JavaScript null and a present value, for a field that starts null
null == << >>
Some(v) == << v >>

GroupIndex(grouped, prospectId) ==
    IF \E i \in 1..Len(grouped) : grouped[i].prospect_id = prospectId
    THEN CHOOSE i \in 1..Len(grouped) : grouped[i].prospect_id = prospectId
    ELSE 0

\* GroupUrlEntry that starts short_url at the original URL
GroupUrlEntry_Prefilled(mapping) ==
    [ original_url |-> mapping.original_url,
      display_name |-> mapping.metadata.site_display_name,
      site_index   |-> mapping.metadata.site_index,
      short_url    |-> Some(mapping.original_url) ]

GroupUrlEntry(mapping) ==
    [ original_url |-> mapping.original_url,
      display_name |-> mapping.metadata.site_display_name,
      site_index   |-> mapping.metadata.site_index,
      short_url    |-> null ]

\* The object `grouped`, as the sequence of its values in insertion order
\* (the order Object.values gives for its keys, none of which is an integer).
RECURSIVE groupUrlsByProspect(_)
groupUrlsByProspect(mappings) ==
    IF mappings = << >> THEN << >>
    ELSE LET grouped == groupUrlsByProspect(SubSeq(mappings, 1, Len(mappings) - 1))
             mapping == mappings[Len(mappings)]
             id      == mapping.metadata.prospect_id
             g       == GroupIndex(grouped, id)
         IN  IF g = 0
             THEN Append(grouped,
                         [ prospect_id   |-> id,
                           company       |-> mapping.metadata.company,
                           business_type |-> mapping.metadata.business_type,
                           urls          |-> << GroupUrlEntry(mapping) >> ])
             ELSE [grouped EXCEPT ![g].urls = Append(@, GroupUrlEntry(mapping))]

\* UrlLookup that stores every result with data, successful or not
RECURSIVE UrlLookup_AnyResult(_, _)
UrlLookup_AnyResult(results, url) ==
    IF results = << >> THEN ""
    ELSE LET result == results[Len(results)]
         IN  IF result.hasData /\ result.original_url = url
             THEN result.data.shortUrl
             ELSE UrlLookup_AnyResult(SubSeq(results, 1, Len(results) - 1), url)

\* urlLookup after shortenedResults.forEach: the value stored last under a
\* key stays. "" stands for a key never stored or stored with no usable
\* value (both read as falsy).
RECURSIVE UrlLookup(_, _)
UrlLookup(results, url) ==
    IF results = << >> THEN ""
    ELSE LET result == results[Len(results)]
         IN  IF result.success /\ result.hasData /\ result.original_url = url
             THEN result.data.shortUrl
             ELSE UrlLookup(SubSeq(results, 1, Len(results) - 1), url)

\* JoinUrl without the else branch: a link with no result keeps its null
JoinUrl_KeepsNull(results, url) ==
    IF UrlLookup(results, url.original_url) # ""
    THEN [url EXCEPT !.short_url = Some(UrlLookup(results, url.original_url))]
    ELSE url

JoinUrl(results, url) ==
    IF UrlLookup(results, url.original_url) # ""
    THEN [url EXCEPT !.short_url = Some(UrlLookup(results, url.original_url))]
    ELSE [url EXCEPT !.short_url = Some(url.original_url)]

updateWithShortUrls(grouped, results) ==
    [g \in 1..Len(grouped) |->
        [grouped[g] EXCEPT !.urls = MapSeq(LAMBDA url : JoinUrl(results, url), @)]]

AllUrls(grouped) == Flatten(MapSeq(LAMBDA g : g.urls, grouped))

\* updatedCount and failedCount of updateWithShortUrls
JoinCounts(grouped, results) ==
    LET urls == AllUrls(grouped)
        hit  == SelectSeq(urls, LAMBDA url : UrlLookup(results, url.original_url) # "")
    IN  [ updatedCount |-> Len(hit), failedCount |-> Len(urls) - Len(hit) ]

-----------------------------------------------------------------------------
(* bulk-uploader.js: the Link Shortener Client                             *)

MAX_RETRIES == 3
RETRY_DELAY == 2000

\* An error object as isRetryable reads it: error.code ("" when it has
\* none), error.message and error.response.status (0 when no response).
JsError(code, message, status) ==
    [code |-> code, message |-> message, status |-> status]

NoError == JsError("", "", 0)

isRetryable(error) ==
    IF error.code = "ECONNRESET" \/ error.code = "ENOTFOUND" \/ error.code = "ETIMEDOUT"
    THEN TRUE
    ELSE IF Includes(error.message, "timeout") THEN TRUE
    ELSE IF error.status >= 500 THEN TRUE
    ELSE IF error.status = 429 THEN TRUE
    ELSE FALSE

\* createFallbackResults without the fallback flag
createFallbackResults_NotFlagged(mappings) ==
    MapSeq(LAMBDA mapping :
             [ success      |-> TRUE,
               original_url |-> mapping.original_url,
               hasData      |-> TRUE,
               data         |-> [ shortUrl    |-> mapping.original_url,
                                  shortCode   |-> "original",
                                  originalUrl |-> mapping.original_url ],
               metadata     |-> mapping.metadata,
               fallback     |-> FALSE ],
           mappings)

\* data.expiresAt (Date.now() + 14 days) is left out: nothing reads it.
createFallbackResults(mappings) ==
    MapSeq(LAMBDA mapping :
             [ success      |-> TRUE,
               original_url |-> mapping.original_url,
               hasData      |-> TRUE,
               data         |-> [ shortUrl    |-> mapping.original_url,
                                  shortCode   |-> "original",
                                  originalUrl |-> mapping.original_url ],
               metadata     |-> mapping.metadata,
               fallback     |-> TRUE ],
           mappings)

\* The response body of the bulk endpoint, as bulkUploadToShortener reads it:
\*   isObject   response.data is truthy
\*   success    response.data.success is truthy
\*   error      response.data.error ("" when absent)
\*   results    "missing" (falsy), "notArray" (truthy, no filter method),
\*              "array" (list holds the entries; hasNull: one entry is null)
ResponseBody(isObject, success, error, resultsKind, list, hasNull) ==
    [ isObject |-> isObject, success |-> success, error |-> error,
      resultsKind |-> resultsKind, list |-> list, hasNull |-> hasNull ]

\* Lines 58-80: what one attempt does with a response: return the results,
\* or throw (the TypeErrors are those of results.filter on a malformed list).
HandleBulkResponse(body) ==
    IF body.isObject /\ body.success
    THEN IF body.resultsKind = "missing" THEN Ok(<< >>)
         ELSE IF body.resultsKind = "notArray"
              THEN Throw("results.filter is not a function")
         ELSE IF body.hasNull
              THEN Throw("Cannot read properties of null (reading 'success')")
         ELSE Ok(body.list)
    ELSE Throw("Bulk upload failed: " \o
               (IF body.isObject /\ body.error # "" THEN body.error ELSE "Unknown error"))

\* The outcome of one awaited axios.post of bulkUploadToShortener: a response
\* (status 2xx) with its body, or a rejection with an error.
AttemptResult(outcome) ==
    IF outcome.kind = "response"
    THEN LET r == HandleBulkResponse(outcome.body)
         IN  IF r.ok THEN r
             ELSE [ok |-> FALSE, error |-> JsError("", r.message, 0)]
    ELSE [ok |-> FALSE, error |-> outcome.error]

\* AfterFailure that gives up after the first failure
AfterFailure_NeverRetries(attemptNo, error) == "raise"

\* AfterFailure with the bound test off by one (attempt <= MAX_RETRIES)
AfterFailure_RetriesLast(attemptNo, error) ==
    IF attemptNo <= MAX_RETRIES
    THEN IF isRetryable(error) THEN "retry" ELSE "raise"
    ELSE "raise"

\* Lines 85-95 of the catch block: what follows a failed attempt.
\*   "retry"  sleep(RETRY_DELAY) and continue with the next attempt
\*   "raise"  leave the loop and throw
AfterFailure(attemptNo, error) ==
    IF attemptNo < MAX_RETRIES
    THEN IF isRetryable(error) THEN "retry" ELSE "raise"
    ELSE "raise"

\* Line 101: the error bulkUploadToShortener throws after the loop
BulkUploadFailed(error) ==
    "Bulk upload failed: " \o (IF error.message # "" THEN error.message
                               ELSE "Unknown error")

\* The catch block keeping the first error instead of the latest
CaughtError_KeepsFirst(lastError_, error) ==
    IF lastError_ = NoError THEN error ELSE lastError_

\* Line 83: lastError = error
CaughtError(lastError_, error) == error

\* Lines 41-101 as a function of what the service answers to attempts 1, 2
\* and 3 (outcomes[i] is read only if attempt i is made): the loop from
\* attempt attemptNo on, with the locals lastError, and the sleeps awaited so
\* far.  The value tells whether the call returned or threw, the results or
\* the thrown message, and the requests sent and sleeps awaited.
RECURSIVE BulkAttempts(_, _, _, _)
BulkAttempts(outcomes, attemptNo, lastError_, sleeps) ==
    LET r == AttemptResult(outcomes[attemptNo])
    IN  IF r.ok
        THEN [ returned |-> TRUE, results |-> r.value, message |-> "",
               requests |-> attemptNo, sleeps |-> sleeps,
               waitedMs |-> sleeps * RETRY_DELAY ]
        ELSE IF AfterFailure(attemptNo, r.error) = "retry"
        THEN BulkAttempts(outcomes, attemptNo + 1, CaughtError(lastError_, r.error),
                          sleeps + 1)
        ELSE [ returned |-> FALSE, results |-> << >>,
               message |-> BulkUploadFailed(CaughtError(lastError_, r.error)),
               requests |-> attemptNo, sleeps |-> sleeps,
               waitedMs |-> sleeps * RETRY_DELAY ]

bulkUploadToShortener(mappings, outcomes) ==
    IF Len(mappings) = 0
    THEN [ returned |-> FALSE, results |-> << >>,
           message |-> "No URL mappings provided for bulk upload",
           requests |-> 0, sleeps |-> 0, waitedMs |-> 0 ]
    ELSE BulkAttempts(outcomes, 1, NoError, 0)

\* testShortenerConnection accepting status 500 as well
testShortenerConnection_Accepts500(outcome) ==
    IF outcome.kind = "response" THEN outcome.status <= 500 ELSE FALSE

\* validateStatus: (status) => status < 500; a rejected probe returns false
testShortenerConnection(outcome) ==
    IF outcome.kind = "response" THEN outcome.status < 500 ELSE FALSE

validateBulkUploadResults(results, originalMappings) ==
    [ total_requested |-> Len(originalMappings),
      total_returned  |-> Len(results),
      successful      |-> Len(SelectSeq(results, LAMBDA r : r.success)),
      failed          |-> Len(SelectSeq(results, LAMBDA r : ~r.success)),
      missing         |-> IF Len(results) # Len(originalMappings)
                          THEN Len(originalMappings) - Len(results) ELSE 0 ]

-----------------------------------------------------------------------------
(* message-generator.js: the Message Renderer                              *)

\* The replacement patterns of String.prototype.replace in the new text:
\* $$ is "$", $& the match, $` the text before it, $' the text after it.
RECURSIVE ExpandReplacement(_, _, _, _)
ExpandReplacement(value, matched, before, after) ==
    LET d == IndexOf(value, "$")
    IN  IF d = 0 \/ d = Len(value) THEN value
        ELSE LET c    == Char(value, d + 1)
                 head == SubSeq(value, 1, d - 1)
                 rest == SubSeq(value, d + 2, Len(value))
             IN  IF c = "$"
                 THEN head \o "$" \o ExpandReplacement(rest, matched, before, after)
                 ELSE IF c = "&"
                 THEN head \o matched \o ExpandReplacement(rest, matched, before, after)
                 ELSE IF c = "`"
                 THEN head \o before \o ExpandReplacement(rest, matched, before, after)
                 ELSE IF c = "'"
                 THEN head \o after \o ExpandReplacement(rest, matched, before, after)
                 ELSE head \o "$" \o
                      ExpandReplacement(SubSeq(value, d + 1, Len(value)),
                                        matched, before, after)

\* first index >= from at which pat occurs in s, 0 if none
NextMatch(s, pat, from) ==
    LET hits == {i \in from..(Len(s) - Len(pat) + 1) : SubSeq(s, i, i + Len(pat) - 1) = pat}
    IN  IF hits = {} THEN 0 ELSE Least(hits)

\* s.replace(new RegExp(pat, 'g'), value) for a pattern that matches itself
RECURSIVE ReplaceFrom(_, _, _, _)
ReplaceFrom(s, pat, value, from) ==
    LET i == NextMatch(s, pat, from)
    IN  IF i = 0 THEN SubSeq(s, from, Len(s))
        ELSE SubSeq(s, from, i - 1)
             \o ExpandReplacement(value, pat, SubSeq(s, 1, i - 1),
                                  SubSeq(s, i + Len(pat), Len(s)))
             \o ReplaceFrom(s, pat, value, i + Len(pat))

\* variables: the entries of the object, in order, as <<key, value>>
RECURSIVE replaceTemplateVariables(_, _)
replaceTemplateVariables(template, variables) ==
    IF variables = << >> THEN template
    ELSE replaceTemplateVariables(
             ReplaceFrom(template, "{" \o variables[1][1] \o "}", variables[1][2], 1),
             Tail(variables))

\* String(url.short_url) inside the replacement
ShortUrlText(short_url) == IF short_url = null THEN "null" ELSE short_url[1]

\* a || b for template strings: a missing or empty string is falsy
OrElse(bundle, field, default) ==
    IF field \in DOMAIN bundle /\ bundle[field] # "" THEN bundle[field] ELSE default

\* generateMessageForProspect joining all three parts, blank or not
generateMessageForProspect_KeepsBlankParts(prospect, urls, tpl) ==
    IF "business_type_customization" \notin DOMAIN tpl
    THEN Throw("Cannot read properties of undefined (reading '"
               \o prospect.business_type \o "')")
    ELSE
    LET baseTemplate   == tpl.whatsapp
        customizations ==
            IF prospect.business_type \in DOMAIN tpl.business_type_customization
            THEN tpl.business_type_customization[prospect.business_type]
            ELSE [none |-> ""]
        greeting  == replaceTemplateVariables(baseTemplate.greeting,
                         << <<"company", prospect.company>> >>)
        intro     == replaceTemplateVariables(
                         OrElse(customizations, "intro", baseTemplate.intro),
                         << <<"business_type", prospect.business_type>>,
                            <<"city", prospect.city>> >>)
        demoLinks == Join(MapSeq(LAMBDA url :
                             replaceTemplateVariables(baseTemplate.demo_link_format,
                                 << <<"display_name", url.display_name>>,
                                    <<"short_url", ShortUrlText(url.short_url)>> >>),
                             urls), "\\n")
        messageParts == << greeting, intro, demoLinks >>
    IN  Ok(Join(messageParts, "\\n\\n"))

generateMessageForProspect(prospect, urls, tpl) ==
    IF "business_type_customization" \notin DOMAIN tpl
    THEN Throw("Cannot read properties of undefined (reading '"
               \o prospect.business_type \o "')")
    ELSE
    LET baseTemplate   == tpl.whatsapp
        customizations ==
            IF prospect.business_type \in DOMAIN tpl.business_type_customization
            THEN tpl.business_type_customization[prospect.business_type]
            ELSE [none |-> ""]
        greeting  == replaceTemplateVariables(baseTemplate.greeting,
                         << <<"company", prospect.company>> >>)
        intro     == replaceTemplateVariables(
                         OrElse(customizations, "intro", baseTemplate.intro),
                         << <<"business_type", prospect.business_type>>,
                            <<"city", prospect.city>> >>)
        demoLinks == Join(MapSeq(LAMBDA url :
                             replaceTemplateVariables(baseTemplate.demo_link_format,
                                 << <<"display_name", url.display_name>>,
                                    <<"short_url", ShortUrlText(url.short_url)>> >>),
                             urls), "\\n")
        messageParts == SelectSeq(<< greeting, intro, demoLinks >>,
                                  LAMBDA part : part # "" /\ Trim(part) # "")
    IN  Ok(Join(messageParts, "\\n\\n"))

\* WithMessage that writes the phone as digits only
WithMessage_NormalisesPhone(prospect, message, demoUrls) ==
    [ id               |-> prospect.id,
      company          |-> prospect.company,
      city             |-> prospect.city,
      phone            |-> DigitsOnly(prospect.phone),
      business_type    |-> prospect.business_type,
      original_row     |-> prospect.original_row,
      whatsapp_message |-> message,
      demo_urls        |-> demoUrls ]

\* { ...prospect, whatsapp_message, demo_urls }
WithMessage(prospect, message, demoUrls) ==
    [ id               |-> prospect.id,
      company          |-> prospect.company,
      city             |-> prospect.city,
      phone            |-> prospect.phone,
      business_type    |-> prospect.business_type,
      original_row     |-> prospect.original_row,
      whatsapp_message |-> message,
      demo_urls        |-> demoUrls ]

\* One iteration of the loop of generateWhatsAppMessages: the record pushed
\* to results, by the try block or by the catch block.
MessageForProspect(prospect, grouped, tpl) ==
    LET g == GroupIndex(grouped, prospect.id)
        r == IF g = 0 \/ Len(grouped[g].urls) = 0
             THEN Throw("No URLs found for prospect " \o prospect.id)
             ELSE generateMessageForProspect(prospect, grouped[g].urls, tpl)
    IN  IF r.ok
        THEN WithMessage(prospect, r.value,
                         MapSeq(LAMBDA url : [ display_name |-> url.display_name,
                                               short_url    |-> url.short_url ],
                                grouped[g].urls))
        ELSE WithMessage(prospect,
                         "ERROR: Could not generate message - " \o r.message, << >>)

\* generateWhatsAppMessages whose catch block pushes nothing
generateWhatsAppMessages_DropsFailures(prospectList, grouped, tpl) ==
    SelectSeq(MapSeq(LAMBDA prospect : MessageForProspect(prospect, grouped, tpl),
                     prospectList),
              LAMBDA m : ~StartsWith(m.whatsapp_message, "ERROR:"))

generateWhatsAppMessages(prospectList, grouped, tpl) ==
    MapSeq(LAMBDA prospect : MessageForProspect(prospect, grouped, tpl), prospectList)

\* main.js exportToCsv: the rows handed to csvWriter.writeRecords
exportToCsv(withMessages) ==
    MapSeq(LAMBDA p : [ company          |-> p.company,
                        city             |-> p.city,
                        phone            |-> p.phone,
                        business_type    |-> p.business_type,
                        whatsapp_message |-> p.whatsapp_message ],
           withMessages)

-----------------------------------------------------------------------------
(* Inputs of a run                                                         *)

MaxRows == 2

ArgvSamples ==
    [ businessType : {"plumbing"}, dryRun : BOOLEAN, skipShortener : BOOLEAN ]

Site(url, display_name) == [url |-> url, display_name |-> display_name]

ConfigFull ==
    [ plumbing    |-> [sites |-> << Site("https://plumbing-client-2.netlify.app",
                                         "Emergency Services Demo"),
                                    Site("https://demo.example.com/plumbing?ref=campaign",
                                         "Modern Design Example") >>],
      landscaping |-> [sites |-> << Site("https://landscaping-demo.netlify.app/",
                                         "Garden Portfolio") >>],
      general     |-> [sites |-> << Site("https://general-demo.netlify.app",
                                         "Business Showcase") >>] ]

ConfigPartial ==
    [ plumbing    |-> [sites |-> << Site("https://plumbing-client-2.netlify.app",
                                         "Emergency Services Demo") >>],
      landscaping |-> [sites |-> << Site("https://landscaping-demo.netlify.app/",
                                         "Garden Portfolio"),
                                    Site("landscaping-demo", "Broken Link") >>],
      general     |-> [sites |-> << >>] ]

ConfigSamples == {ConfigFull, ConfigPartial}

WhatsappTemplate ==
    [ greeting            |-> "Hi {company}!",
      intro               |-> "I noticed you're a {business_type} business in {city}.",
      demo_section_header |-> "Demo sites:",
      demo_link_format    |-> "- {display_name}: {short_url}" ]

TemplatesFull ==
    [ whatsapp |-> WhatsappTemplate,
      business_type_customization |->
          [ plumbing |-> [ intro |-> "Need more {business_type} calls in {city}?",
                           demo_section_header |-> "Plumbing sites:" ] ] ]

TemplatesBare == [ whatsapp |-> WhatsappTemplate ]

TemplateSamples == {TemplatesFull, TemplatesBare}

\* The two configuration files a run is started with
EnvSamples ==
    { [config |-> c, templates |-> TemplatesFull] : c \in ConfigSamples }
    \cup { [config |-> ConfigFull, templates |-> TemplatesBare] }

Row(company, city, phone, business_type) ==
    [company |-> company, city |-> city, phone |-> phone, business_type |-> business_type]

RowPlumber      == Row("Smith Plumbing", "Austin", "(555) 123-4567", "plumber")
RowLandscaping  == Row("  Green   Thumb ", "Phoenix", "(602) 555-9876", " Landscaping")
RowBlankType    == Row("Quick Fix", "Denver", "303-555-0123", "")
RowNoTypeColumn == [company |-> "Fast Repairs", city |-> "Miami", phone |-> "305-555-0123"]
RowInherited    == Row("Acme & Sons", "Reno", "775-555-0100", "constructor")

\* Rows the stream delivers to the run
RowSamples == {RowPlumber, RowLandscaping, RowBlankType, RowNoTypeColumn}

\* Outcomes of the connectivity probe's axios.post
ProbeOutcomes ==
    { [kind |-> "response", status |-> st] : st \in {200, 404, 429, 499, 500, 503} }
    \cup { [kind |-> "error", error |-> JsError("ECONNREFUSED", "connect ECONNREFUSED", 0)] }

\* Errors axios.post rejects with: transport errors and HTTP status errors
AxiosErrors ==
    { JsError("ECONNRESET", "socket hang up", 0),
      JsError("ENOTFOUND", "getaddrinfo ENOTFOUND websites-links.netlify.app", 0),
      JsError("ETIMEDOUT", "connect ETIMEDOUT", 0),
      JsError("ECONNABORTED", "timeout of 60000ms exceeded", 0),
      JsError("ECONNREFUSED", "connect ECONNREFUSED", 0),
      JsError("ERR_BAD_RESPONSE", "Request failed with status code 500", 500),
      JsError("ERR_BAD_RESPONSE", "Request failed with status code 503", 503),
      JsError("ERR_BAD_REQUEST", "Request failed with status code 429", 429),
      JsError("ERR_BAD_REQUEST", "Request failed with status code 400", 400),
      JsError("ERR_BAD_REQUEST", "Request failed with status code 404", 404) }

ServiceResult(success, original_url, hasData, shortUrl, error) ==
    [ success      |-> success,
      original_url |-> original_url,
      hasData      |-> hasData,
      data         |-> [ shortUrl |-> shortUrl, shortCode |-> "code",
                         originalUrl |-> original_url ],
      error        |-> error,
      fallback     |-> FALSE ]

Shortened(mapping, i) ==
    ServiceResult(TRUE, mapping.original_url, TRUE, "https://sho.rt/" \o ToString(i), "")

Rejected(mapping) ==
    ServiceResult(FALSE, mapping.original_url, FALSE, "", "Invalid URL")

\* Result lists the service may answer with for a batch
ResultLists(mappings) ==
    LET n == Len(mappings)
    IN  { [i \in 1..n |-> Shortened(mappings[i], i)],
          [i \in 1..n |-> IF i = 1 THEN Rejected(mappings[i])
                          ELSE Shortened(mappings[i], i)],
          [i \in 1..n |-> Rejected(mappings[i])],
          [i \in 1..(n - 1) |-> Shortened(mappings[i], i)],
          [i \in 1..n |-> IF i = n
                          THEN ServiceResult(TRUE, mappings[i].original_url, TRUE, "", "")
                          ELSE Shortened(mappings[i], i)],
          [i \in 1..n |-> IF i = n
                          THEN ServiceResult(TRUE, mappings[i].original_url, FALSE, "", "")
                          ELSE Shortened(mappings[i], i)],
          << >> }

ResponseBodies(mappings) ==
    { ResponseBody(TRUE, TRUE, "", "array", list, FALSE) : list \in ResultLists(mappings) }
    \cup
    { ResponseBody(TRUE, TRUE, "", "missing", << >>, FALSE),
      ResponseBody(TRUE, TRUE, "", "notArray", << >>, FALSE),
      ResponseBody(TRUE, TRUE, "", "array", << >>, TRUE),
      ResponseBody(TRUE, FALSE, "Rate limit exceeded", "missing", << >>, FALSE),
      ResponseBody(TRUE, FALSE, "upstream timeout", "missing", << >>, FALSE),
      ResponseBody(TRUE, FALSE, "", "missing", << >>, FALSE),
      ResponseBody(FALSE, FALSE, "", "missing", << >>, FALSE) }

BulkOutcomes(mappings) ==
    { [kind |-> "response", body |-> b] : b \in ResponseBodies(mappings) }
    \cup { [kind |-> "error", error |-> e] : e \in AxiosErrors }

-----------------------------------------------------------------------------
(* main.js: the run, one action per step between two awaits               *)

\* exitCode is -1 while the process runs; message is the error.message that
\* main's catch block prints before process.exit(1)
NetIdle ==
    [ probes |-> 0, bulkRequests |-> 0, sleeps |-> 0, waitedMs |-> 0,
      exitCode |-> -1, message |-> "" ]
\* probeStatus is response.status inside testShortenerConnection (0 when the
\* request was rejected without a response); outside that call it is 0
Step3Idle == [connectionOk |-> "untested", probeStatus |-> 0, bulkFailure |-> ""]

PipeStart(position) ==
    /\ csvRows = << >>
    /\ pc = position
    /\ rowCount = 0
    /\ prospects = << >>
    /\ errors = << >>
    /\ urlMappings = << >>
    /\ groupedUrls = << >>
    /\ step3 = Step3Idle
    /\ attempt = 0
    /\ lastError = NoError
    /\ net = NetIdle
    /\ shortenedResults = << >>
    /\ joinStats = [updatedCount |-> 0, failedCount |-> 0]
    /\ prospectsWithMessages = << >>
    /\ exported = << >>

FnIdle ==
    /\ fnInput = [fn |-> "none"]
    /\ fnOutput = [fn |-> "none"]
    /\ fnPhase = "idle"

Init ==
    /\ argv \in ArgvSamples
    /\ \E env \in EnvSamples :
          /\ businessConfig = env.config
          /\ templates = env.templates
    /\ PipeStart("parsing")
    /\ FnIdle

\* OnData without the try/catch: the first failing row rejects the parse
OnData_AbortsOnError(row) ==
    /\ pc = "parsing"
    /\ rowCount < MaxRows
    /\ csvRows' = Append(csvRows, row)
    /\ rowCount' = rowCount + 1
    /\ LET r == validateAndCleanProspect(row, rowCount + 1)
       IN  IF r.ok
           THEN /\ prospects' = Append(prospects, r.value)
                /\ UNCHANGED << errors, pc, net >>
           ELSE /\ errors' = Append(errors, "Row " \o ToString(rowCount + 1)
                                            \o ": " \o r.message)
                /\ pc' = "failed"
                /\ net' = [net EXCEPT !.exitCode = 1, !.message = r.message]
                /\ UNCHANGED prospects
    /\ UNCHANGED << argv, businessConfig, templates, urlMappings, groupedUrls,
                    step3, attempt, lastError, shortenedResults, joinStats,
                    prospectsWithMessages, exported, fnVars >>

\* csv-parser.js 26-35: the stream's 'data' event
OnData(row) ==
    /\ pc = "parsing"
    /\ rowCount < MaxRows
    /\ csvRows' = Append(csvRows, row)
    /\ rowCount' = rowCount + 1
    /\ LET r == validateAndCleanProspect(row, rowCount + 1)
       IN  IF r.ok
           THEN /\ prospects' = Append(prospects, r.value)
                /\ UNCHANGED errors
           ELSE /\ errors' = Append(errors, "Row " \o ToString(rowCount + 1)
                                            \o ": " \o r.message)
                /\ UNCHANGED prospects
    /\ UNCHANGED << argv, businessConfig, templates, pc, urlMappings, groupedUrls,
                    step3, attempt, lastError, net, shortenedResults, joinStats,
                    prospectsWithMessages, exported, fnVars >>

\* process.exit(1) of main's catch block
ExitFailure(message) == [net EXCEPT !.exitCode = 1, !.message = message]

\* OnEnd without the dry-run return: main always goes on to step 2
OnEnd_IgnoresDryRun ==
    /\ pc = "parsing"
    /\ IF Len(prospects) = 0
       THEN /\ pc' = "failed"
            /\ net' = ExitFailure("No valid prospects found in CSV file")
       ELSE /\ pc' = "generate"
            /\ UNCHANGED net
    /\ UNCHANGED << argv, businessConfig, templates, csvRows, rowCount, prospects,
                    errors, urlMappings, groupedUrls, step3, attempt, lastError,
                    shortenedResults, joinStats, prospectsWithMessages, exported,
                    fnVars >>

\* csv-parser.js 36-64 and main.js 77-102: the stream's 'end' event; the
\* promise rejects (main's catch exits with 1) or resolves, and main goes on
\* to the dry-run return or to step 2.
OnEnd ==
    /\ pc = "parsing"
    /\ IF Len(prospects) = 0
       THEN /\ pc' = "failed"
            /\ net' = ExitFailure("No valid prospects found in CSV file")
       ELSE IF argv.dryRun
       THEN /\ pc' = "done"
            /\ net' = [net EXCEPT !.exitCode = 0]
       ELSE /\ pc' = "generate"
            /\ UNCHANGED net
    /\ UNCHANGED << argv, businessConfig, templates, csvRows, rowCount, prospects,
                    errors, urlMappings, groupedUrls, step3, attempt, lastError,
                    shortenedResults, joinStats, prospectsWithMessages, exported,
                    fnVars >>

\* csv-parser.js 16-19 and main.js 203-212: fs.pathExists answers false
\* before the stream is opened; parseProspectsCSV throws, main's catch exits
OnFileMissing ==
    /\ pc = "parsing"
    /\ rowCount = 0
    /\ pc' = "failed"
    /\ net' = ExitFailure("CSV file not found: prospects.csv")
    /\ UNCHANGED << argv, businessConfig, templates, csvRows, rowCount, prospects,
                    errors, urlMappings, groupedUrls, step3, attempt, lastError,
                    shortenedResults, joinStats, prospectsWithMessages, exported,
                    fnVars >>

\* main.js 260-273: the SIGINT and SIGTERM handlers, installed before main
\* starts; either signal, delivered while the process runs, ends it with
\* process.exit(0)
OnSignal ==
    /\ net.exitCode = -1
    /\ pc' = "interrupted"
    /\ net' = [net EXCEPT !.exitCode = 0]
    /\ UNCHANGED << argv, businessConfig, templates, csvRows, rowCount, prospects,
                    errors, urlMappings, groupedUrls, step3, attempt, lastError,
                    shortenedResults, joinStats, prospectsWithMessages, exported,
                    fnVars >>

\* csv-parser.js 65-67: the stream's 'error' event
OnStreamError ==
    /\ pc = "parsing"
    /\ pc' = "failed"
    /\ net' = ExitFailure("CSV parsing error: read failed")
    /\ UNCHANGED << argv, businessConfig, templates, csvRows, rowCount, prospects,
                    errors, urlMappings, groupedUrls, step3, attempt, lastError,
                    shortenedResults, joinStats, prospectsWithMessages, exported,
                    fnVars >>

\* main.js 102-113: step 2
GenerateUrls ==
    /\ pc = "generate"
    /\ urlMappings' = generateDemoUrls(prospects, businessConfig)
    /\ groupedUrls' = groupUrlsByProspect(urlMappings')
    /\ pc' = "shorten"
    /\ UNCHANGED << argv, businessConfig, templates, csvRows, rowCount, prospects,
                    errors, step3, attempt, lastError, net, shortenedResults,
                    joinStats, prospectsWithMessages, exported, fnVars >>

\* StartShortening without the skip-shortener test: the probe is always sent
StartShortening_AlwaysProbes ==
    /\ pc = "shorten"
    /\ net' = [net EXCEPT !.probes = @ + 1]
    /\ pc' = "probe"
    /\ UNCHANGED << argv, businessConfig, templates, csvRows, rowCount, prospects,
                    errors, urlMappings, groupedUrls, step3, attempt, lastError,
                    shortenedResults, joinStats, prospectsWithMessages, exported,
                    fnVars >>

\* main.js 116-124: skip the shortener, or send the connectivity probe
StartShortening ==
    /\ pc = "shorten"
    /\ IF argv.skipShortener
       THEN /\ shortenedResults' = createFallbackResults(urlMappings)
            /\ pc' = "validate"
            /\ UNCHANGED net
       ELSE /\ net' = [net EXCEPT !.probes = @ + 1]
            /\ pc' = "probe"
            /\ UNCHANGED shortenedResults
    /\ UNCHANGED << argv, businessConfig, templates, csvRows, rowCount, prospects,
                    errors, urlMappings, groupedUrls, step3, attempt, lastError,
                    joinStats, prospectsWithMessages, exported, fnVars >>

\* BulkRaised with the catch left out: the error leaves main's step 3
BulkRaised_Propagates(message) ==
    /\ step3' = [step3 EXCEPT !.bulkFailure = message, !.connectionOk = "ok",
                              !.probeStatus = 0]
    /\ shortenedResults' = shortenedResults
    /\ pc' = "failed"

\* main.js 135-138: the catch around bulkUploadToShortener
BulkRaised(message) ==
    /\ step3' = [step3 EXCEPT !.bulkFailure = message, !.connectionOk = "ok",
                              !.probeStatus = 0]
    /\ shortenedResults' = createFallbackResults(urlMappings)
    /\ pc' = "validate"

\* bulk-uploader.js 218-237: the probe's axios.post settles and
\* testShortenerConnection returns true or false
ProbeResponse(outcome) ==
    /\ pc = "probe"
    /\ step3' = [step3 EXCEPT
                    !.connectionOk = IF testShortenerConnection(outcome)
                                     THEN "ok" ELSE "failed",
                    !.probeStatus  = IF outcome.kind = "response"
                                     THEN outcome.status ELSE 0]
    /\ pc' = "probed"
    /\ UNCHANGED << argv, businessConfig, templates, csvRows, rowCount, prospects,
                    errors, urlMappings, groupedUrls, attempt, lastError, net,
                    shortenedResults, joinStats, prospectsWithMessages, exported,
                    fnVars >>

\* main.js 125-134 and bulk-uploader.js 19-56: main resumes with
\* connectionOk, all that is left of the probe: the fallback, or the call of
\* bulkUploadToShortener up to its first request
AfterProbe ==
    /\ pc = "probed"
    /\ IF step3.connectionOk # "ok"
       THEN /\ step3' = [step3 EXCEPT !.probeStatus = 0]
            /\ shortenedResults' = createFallbackResults(urlMappings)
            /\ pc' = "validate"
            /\ UNCHANGED << attempt, net >>
       ELSE IF Len(urlMappings) = 0
       THEN /\ BulkRaised("No URL mappings provided for bulk upload")
            /\ UNCHANGED << attempt, net >>
       ELSE /\ step3' = [step3 EXCEPT !.probeStatus = 0]
            /\ attempt' = 1
            /\ net' = [net EXCEPT !.bulkRequests = @ + 1]
            /\ pc' = "bulk_wait"
            /\ UNCHANGED shortenedResults
    /\ UNCHANGED << argv, businessConfig, templates, csvRows, rowCount, prospects,
                    errors, urlMappings, groupedUrls, lastError, joinStats,
                    prospectsWithMessages, exported, fnVars >>

\* bulk-uploader.js 56-101: the answer to one attempt's request
BulkResponse(outcome) ==
    /\ pc = "bulk_wait"
    /\ LET r == AttemptResult(outcome)
       IN  IF r.ok
           THEN /\ shortenedResults' = r.value
                /\ step3' = step3
                /\ pc' = "validate"
                /\ attempt' = 0
                /\ lastError' = NoError
                /\ UNCHANGED net
           ELSE /\ lastError' = CaughtError(lastError, r.error)
                /\ IF AfterFailure(attempt, r.error) = "retry"
                   THEN /\ net' = [net EXCEPT !.sleeps = @ + 1,
                                              !.waitedMs = @ + RETRY_DELAY]
                        /\ pc' = "bulk_sleep"
                        /\ UNCHANGED << attempt, step3, shortenedResults >>
                   ELSE /\ BulkRaised(BulkUploadFailed(CaughtError(lastError, r.error)))
                        /\ attempt' = 0
                        /\ UNCHANGED net
    /\ UNCHANGED << argv, businessConfig, templates, csvRows, rowCount, prospects,
                    errors, urlMappings, groupedUrls, joinStats,
                    prospectsWithMessages, exported, fnVars >>

\* bulk-uploader.js 89-90 and 41-56: the sleep ends, the next attempt is sent
RetryAfterSleep ==
    /\ pc = "bulk_sleep"
    /\ attempt' = attempt + 1
    /\ net' = [net EXCEPT !.bulkRequests = @ + 1]
    /\ pc' = "bulk_wait"
    /\ UNCHANGED << argv, businessConfig, templates, csvRows, rowCount, prospects,
                    errors, urlMappings, groupedUrls, step3, lastError,
                    shortenedResults, joinStats, prospectsWithMessages, exported,
                    fnVars >>

\* main.js 143-150: validate the results and join them into the groups
ValidateAndJoin ==
    /\ pc = "validate"
    /\ groupedUrls' = updateWithShortUrls(groupedUrls, shortenedResults)
    /\ joinStats' = JoinCounts(groupedUrls, shortenedResults)
    /\ pc' = "render"
    /\ UNCHANGED << argv, businessConfig, templates, csvRows, rowCount, prospects,
                    errors, urlMappings, step3, attempt, lastError, net,
                    shortenedResults, prospectsWithMessages, exported, fnVars >>

\* main.js 154-170: step 4
RenderMessages ==
    /\ pc = "render"
    /\ prospectsWithMessages' = generateWhatsAppMessages(prospects, groupedUrls, templates)
    /\ pc' = "export"
    /\ UNCHANGED << argv, businessConfig, templates, csvRows, rowCount, prospects,
                    errors, urlMappings, groupedUrls, step3, attempt, lastError, net,
                    shortenedResults, joinStats, exported, fnVars >>

\* main.js 174-201: step 5; main returns and the process ends with code 0
ExportCsv ==
    /\ pc = "export"
    /\ exported' = exportToCsv(prospectsWithMessages)
    /\ pc' = "done"
    /\ net' = [net EXCEPT !.exitCode = 0]
    /\ UNCHANGED << argv, businessConfig, templates, csvRows, rowCount, prospects,
                    errors, urlMappings, groupedUrls, step3, attempt, lastError,
                    shortenedResults, joinStats, prospectsWithMessages, fnVars >>

Next ==
    \/ \E row \in RowSamples : OnData(row)
    \/ OnEnd
    \/ OnStreamError
    \/ OnFileMissing
    \/ OnSignal
    \/ GenerateUrls
    \/ StartShortening
    \/ \E outcome \in ProbeOutcomes : ProbeResponse(outcome)
    \/ AfterProbe
    \/ \E outcome \in BulkOutcomes(urlMappings) : BulkResponse(outcome)
    \/ RetryAfterSleep
    \/ ValidateAndJoin
    \/ RenderMessages
    \/ ExportCsv

Spec == Init /\ [][Next]_vars

-----------------------------------------------------------------------------
(* One function applied to an enumerated input                             *)

MaxResults == 2

ValidatorCompanies == {"Smith Plumbing", "  Green   Thumb ", "   "}
ValidatorCities == {"Austin", ""}
ValidatorPhones == {"(555) 123-4567", "555-1234", " 303.555.0123 "}
ValidatorTypes ==
    { "plumbing", "landscaping", "general", "Plumbing", " GENERAL ",
      "plumber", "Plumbers", "landscape", "landscaper", "landscapers",
      "garden", "gardening", "other", "misc", "service",
      "contractor", "hvac", "", "  ",
      "constructor", "__proto__", "toString", "valueOf" }

ValidatorRows ==
    { Row(c, t, p, b) : c \in ValidatorCompanies, t \in ValidatorCities,
                        p \in ValidatorPhones, b \in ValidatorTypes }
    \cup { [company |-> c, city |-> t, phone |-> p] :
               c \in ValidatorCompanies, t \in ValidatorCities, p \in ValidatorPhones }
    \cup { [company |-> c, city |-> t, business_type |-> "plumbing"] :
               c \in ValidatorCompanies, t \in ValidatorCities }

RowGeneral == Row("Quick Fix", "Denver", "303-555-0123", "misc")

\* Prospects the Record Validator produces
ProspectSamples ==
    { validateAndCleanProspect(r, n).value :
        r \in {RowPlumber, RowLandscaping, RowGeneral, RowInherited}, n \in {1, 2} }

ConfigFour ==
    [ plumbing |-> [sites |-> << Site("https://plumbing-client-1.netlify.app", "Emergency Services Demo"),
                                 Site("https://plumbing-client-2.netlify.app/", "Modern Design Example"),
                                 Site("https://plumbing-client-3.netlify.app/demo", "Customer Reviews Showcase"),
                                 Site("http://plumbing-client-4.netlify.app?company=Demo&utm=wa",
                                      "Professional Portfolio") >>] ]

LinkConfigs == ConfigSamples \cup {ConfigFour}

ProspectA  == validateAndCleanProspect(RowPlumber, 1).value
ProspectA2 == validateAndCleanProspect(RowPlumber, 2).value
ProspectB  == validateAndCleanProspect(RowLandscaping, 2).value

\* Flat link lists the Link Generator produces: two links of one prospect,
\* the same URL for two prospects, three links of two prospects
JoinMappingSamples ==
    { generateDemoUrls(<< ProspectA >>, ConfigFull),
      generateDemoUrls(<< ProspectA, ProspectA2 >>, ConfigPartial),
      generateDemoUrls(<< ProspectA, ProspectB >>, ConfigFull) }

MappedUrls(mappings) == {mappings[i].original_url : i \in 1..Len(mappings)}

\* Per-link results of the service: for a submitted or a foreign URL,
\* successful with no data, an empty short URL or one of two short URLs, or
\* failed with a data object that must not be used
ResultUniverse(mappings) ==
    LET urls == MappedUrls(mappings) \cup {"https://other.example/"}
    IN  { ServiceResult(TRUE, url, d[1], d[2], "") :
            url \in urls,
            d \in { <<FALSE, "">>, <<TRUE, "">>,
                    <<TRUE, "https://sho.rt/a">>, <<TRUE, "https://sho.rt/b">> } }
        \cup { ServiceResult(FALSE, url, TRUE, "https://sho.rt/rejected", "Invalid URL") :
                 url \in urls }

BoundedSeqs(S, n) == UNION { [1..k -> S] : k \in 0..n }

\* s repeated n times
RECURSIVE Repeat(_, _)
Repeat(s, n) == IF n = 0 THEN "" ELSE s \o Repeat(s, n - 1)

\* Field values at and just beyond the length bounds, before and after
\* trimming and collapsing, and phones with 9, 10 and 11 digits
BoundaryCompanies ==
    { Repeat("ab", 50),
      Repeat("ab", 50) \o "c",
      "  " \o Repeat("ab", 50) \o "  ",
      "  " \o Repeat("ab   ", 25),
      Repeat("abc ", 25) \o "x" }

BoundaryCities == { "Austin", Repeat("ab", 25), Repeat("ab", 25) \o "c",
                    Repeat("a  b", 17) }

BoundaryPhones == { "(555) 123-4567", "555-123-456", " +1 (555) 123-4567 ext. " }

BoundaryRows ==
    { Row(c, t, p, "plumbing") :
        c \in BoundaryCompanies, t \in BoundaryCities, p \in BoundaryPhones }

\* Row positions around each width of the sequence number
RowNumberSamples == {1, 2, 9, 10, 99, 100, 999, 1000, 9999, 10000, 10001, 12345}

ValidatorInputs ==
    { [fn |-> "validateAndCleanProspect", row |-> r, rowNumber |-> n] :
        r \in ValidatorRows, n \in {1, 2} }
    \cup
    { [fn |-> "validateAndCleanProspect", row |-> r, rowNumber |-> n] :
        r \in {RowPlumber, RowLandscaping}, n \in RowNumberSamples }
    \cup
    { [fn |-> "validateAndCleanProspect", row |-> r, rowNumber |-> 1] :
        r \in BoundaryRows }

GenerateInputs ==
    { [fn |-> "generateUrlsForProspect", prospect |-> p, config |-> c] :
        p \in ProspectSamples, c \in LinkConfigs }

JoinInputs ==
    UNION { { [fn |-> "updateWithShortUrls", mappings |-> m, results |-> rs] :
                rs \in BoundedSeqs(ResultUniverse(m), MaxResults)
                       \cup {createFallbackResults(m)} } :
            m \in JoinMappingSamples }

\* Answers of the service to one attempt of the bulk call for the links of
\* ProspectA: HTTP errors, a transport error, a refusing body, and two
\* conforming bodies with different result lists
BulkMappings == generateDemoUrls(<< ProspectA >>, ConfigFour)

BulkOutcomeSamples ==
    { [kind |-> "error",
       error |-> JsError("ERR_BAD_RESPONSE", "Request failed with status code 503", 503)],
      [kind |-> "error",
       error |-> JsError("ERR_BAD_REQUEST", "Request failed with status code 429", 429)],
      [kind |-> "error", error |-> JsError("ECONNRESET", "socket hang up", 0)],
      [kind |-> "error",
       error |-> JsError("ERR_BAD_REQUEST", "Request failed with status code 404", 404)],
      [kind |-> "response",
       body |-> ResponseBody(TRUE, FALSE, "Rate limit exceeded", "missing", << >>, FALSE)],
      [kind |-> "response",
       body |-> ResponseBody(TRUE, TRUE, "", "missing", << >>, FALSE)],
      [kind |-> "response",
       body |-> ResponseBody(TRUE, TRUE, "", "array",
                             [i \in 1..Len(BulkMappings) |-> Shortened(BulkMappings[i], i)],
                             FALSE)],
      [kind |-> "response",
       body |-> ResponseBody(TRUE, TRUE, "", "array",
                             << Rejected(BulkMappings[1]) >>, FALSE)] }

ProspectC == validateAndCleanProspect(RowGeneral, 3).value

\* Prospect lists handed to generateDemoUrls, with each configuration
DemoUrlInputs ==
    { [fn |-> "generateDemoUrls", prospects |-> ps, config |-> c] :
        ps \in { << ProspectA >>, << ProspectB, ProspectA >>,
                 << ProspectA, ProspectB, ProspectC >>,
                 << ProspectC, ProspectA, ProspectB >> },
        c \in LinkConfigs }

\* The links of two Prospects, alternating
Interleaved(first, second) ==
    [i \in 1..(Len(first) + Len(second)) |->
        IF i % 2 = 1 THEN first[(i + 1) \div 2] ELSE second[i \div 2]]

\* Flat lists handed to groupUrlsByProspect: those generateDemoUrls returns,
\* and one in which the links of two Prospects alternate
GroupInputs ==
    { [fn |-> "groupUrlsByProspect", config |-> i.config,
       mappings |-> generateDemoUrls(i.prospects, i.config)] : i \in DemoUrlInputs }
    \cup
    { [fn |-> "groupUrlsByProspect", config |-> ConfigFour,
       mappings |-> Interleaved(generateDemoUrls(<< ProspectA >>, ConfigFour),
                                generateDemoUrls(<< ProspectA2 >>, ConfigFour))] }

\* Templates whose category bundles override the greeting and the header, and
\* templates whose default greeting also names the city
TemplatesGreeting ==
    [ whatsapp |-> WhatsappTemplate,
      business_type_customization |->
          [ plumbing    |-> [ greeting |-> "Hello {company} crew!",
                              intro |-> "Need more {business_type} calls in {city}?",
                              demo_section_header |-> "Plumbing sites:" ],
            landscaping |-> [ greeting |-> "Hi {company} gardeners!" ] ] ]

TemplatesCity ==
    [ whatsapp |-> [WhatsappTemplate EXCEPT !.greeting = "Hi {company} of {city}!"],
      business_type_customization |-> [ general |-> [ intro |-> "" ] ] ]

\* Default templates with a whitespace-only introduction, and with no greeting
TemplatesNoIntro ==
    [ whatsapp |-> [WhatsappTemplate EXCEPT !.intro = "  "],
      business_type_customization |->
          [ landscaping |-> [ intro |-> "Need a greener {city}?" ] ] ]

TemplatesNoGreeting ==
    [ whatsapp |-> [WhatsappTemplate EXCEPT !.greeting = ""],
      business_type_customization |-> [ general |-> [ intro |-> "" ] ] ]

RowDollar == Row("Big $$ Savers", "Austin", "(555) 123-4567", "plumber")

ProspectDollar == validateAndCleanProspect(RowDollar, 4).value

\* The joined links of one Prospect, shortened or left as they are
JoinedUrls(prospect, shortened) ==
    LET mappings == generateDemoUrls(<< prospect >>, ConfigFull)
        results  == IF shortened
                    THEN [i \in 1..Len(mappings) |-> Shortened(mappings[i], i)]
                    ELSE createFallbackResults(mappings)
    IN  updateWithShortUrls(groupUrlsByProspect(mappings), results)[1].urls

RenderInputs ==
    { [fn |-> "generateMessageForProspect", prospect |-> p,
       urls |-> JoinedUrls(p, shortened), templates |-> t] :
        p \in {ProspectA, ProspectB, ProspectDollar},
        shortened \in BOOLEAN,
        t \in {TemplatesFull, TemplatesGreeting, TemplatesCity,
                TemplatesNoIntro, TemplatesNoGreeting} }

BulkInputs ==
    { [fn |-> "bulkUploadToShortener", mappings |-> BulkMappings, outcomes |-> os] :
        os \in [1..MAX_RETRIES -> BulkOutcomeSamples] }

InitFn ==
    /\ argv = [businessType |-> "general", dryRun |-> FALSE, skipShortener |-> FALSE]
    /\ businessConfig = ConfigFull
    /\ templates = TemplatesFull
    /\ PipeStart("idle")
    /\ fnInput \in ValidatorInputs \cup GenerateInputs \cup JoinInputs \cup BulkInputs
                   \cup DemoUrlInputs \cup GroupInputs \cup RenderInputs
    /\ fnOutput = [fn |-> "none"]
    /\ fnPhase = "ready"

CallValidator ==
    /\ fnPhase = "ready"
    /\ fnInput.fn = "validateAndCleanProspect"
    /\ fnOutput' = [fn |-> fnInput.fn,
                    result |-> validateAndCleanProspect(fnInput.row, fnInput.rowNumber)]
    /\ fnPhase' = "returned"
    /\ UNCHANGED << pipeVars, fnInput >>

CallGenerateUrls ==
    /\ fnPhase = "ready"
    /\ fnInput.fn = "generateUrlsForProspect"
    /\ fnOutput' = [fn |-> fnInput.fn,
                    result |-> generateUrlsForProspect(fnInput.prospect, fnInput.config)]
    /\ fnPhase' = "returned"
    /\ UNCHANGED << pipeVars, fnInput >>

CallJoin ==
    /\ fnPhase = "ready"
    /\ fnInput.fn = "updateWithShortUrls"
    /\ LET grouped == groupUrlsByProspect(fnInput.mappings)
       IN  fnOutput' = [fn |-> fnInput.fn,
                        grouped |-> updateWithShortUrls(grouped, fnInput.results),
                        stats |-> JoinCounts(grouped, fnInput.results)]
    /\ fnPhase' = "returned"
    /\ UNCHANGED << pipeVars, fnInput >>

CallBulkUpload ==
    /\ fnPhase = "ready"
    /\ fnInput.fn = "bulkUploadToShortener"
    /\ fnOutput' = [fn |-> fnInput.fn,
                    result |-> bulkUploadToShortener(fnInput.mappings, fnInput.outcomes)]
    /\ fnPhase' = "returned"
    /\ UNCHANGED << pipeVars, fnInput >>

CallGenerateDemoUrls ==
    /\ fnPhase = "ready"
    /\ fnInput.fn = "generateDemoUrls"
    /\ fnOutput' = [fn |-> fnInput.fn,
                    result |-> generateDemoUrls(fnInput.prospects, fnInput.config)]
    /\ fnPhase' = "returned"
    /\ UNCHANGED << pipeVars, fnInput >>

CallGroupUrls ==
    /\ fnPhase = "ready"
    /\ fnInput.fn = "groupUrlsByProspect"
    /\ fnOutput' = [fn |-> fnInput.fn, result |-> groupUrlsByProspect(fnInput.mappings)]
    /\ fnPhase' = "returned"
    /\ UNCHANGED << pipeVars, fnInput >>

CallRender ==
    /\ fnPhase = "ready"
    /\ fnInput.fn = "generateMessageForProspect"
    /\ fnOutput' = [fn |-> fnInput.fn,
                    result |-> generateMessageForProspect(fnInput.prospect, fnInput.urls,
                                                          fnInput.templates)]
    /\ fnPhase' = "returned"
    /\ UNCHANGED << pipeVars, fnInput >>

NextFn ==
    \/ CallRender
    \/ CallGroupUrls
    \/ CallValidator
    \/ CallGenerateUrls
    \/ CallJoin
    \/ CallBulkUpload
    \/ CallGenerateDemoUrls

SpecFn == InitFn /\ [][NextFn]_vars

-----------------------------------------------------------------------------
(* Claims                                                                  *)

ShortenStage == {"shorten", "probe", "probed", "bulk_wait", "bulk_sleep"}
AfterShortening == {"validate", "render", "export", "done"}

\* C1: in a non-dry run with at least one Prospect, whatever the probe and
\* every bulk attempt answer, a step taken in the shortening stage stays in
\* the stage or enters the join; the join is followed by rendering, rendering
\* by the export, and the export by exit code 0: no failure of the stage
\* ends the run (only a signal delivered from outside does).
C1_ShorteningNeverEndsRun ==
    [][ \/ pc' = "interrupted"
        \/ /\ pc \in ShortenStage => pc' \in ShortenStage \cup {"validate"}
           /\ pc = "validate" => pc' = "render"
           /\ pc = "render" => pc' = "export"
           /\ (pc = "export" /\ ~argv.dryRun) =>
                  (pc' = "done" /\ net'.exitCode = 0) ]_vars

\* the run completed although the bulk call had raised after three attempts
C1_Witness ==
    /\ pc = "done"
    /\ net.exitCode = 0
    /\ step3.bulkFailure # ""
    /\ net.bulkRequests = 3
    /\ Len(exported) >= 1

FallbackTaken ==
    \/ argv.skipShortener
    \/ step3.connectionOk = "failed"
    \/ step3.bulkFailure # ""

\* C2: when the shortener is skipped, the probe fails or the bulk call
\* raises, the results handed to the join have one entry per LinkMapping, in
\* order, each successful, flagged fallback, with shortUrl = original_url.
C2_FallbackResults ==
    (pc \in AfterShortening /\ ~argv.dryRun /\ FallbackTaken) =>
        /\ Len(shortenedResults) = Len(urlMappings)
        /\ \A i \in 1..Len(urlMappings) :
              /\ shortenedResults[i].success
              /\ shortenedResults[i].fallback
              /\ shortenedResults[i].original_url = urlMappings[i].original_url
              /\ shortenedResults[i].hasData
              /\ shortenedResults[i].data.shortUrl = urlMappings[i].original_url

\* the bulk call raised and the join is about to get fallback results for
\* several links
C2_Witness ==
    /\ pc = "validate"
    /\ step3.bulkFailure # ""
    /\ net.bulkRequests >= 1
    /\ Len(urlMappings) >= 2
    /\ Len(shortenedResults) = Len(urlMappings)

\* C3: bulkUploadToShortener sends at most 3 requests, one at a time, and
\* sleeps only between a failed attempt and the next one: at most 2 sleeps,
\* each followed by an attempt, none after the last attempt.
C3_BoundedSequentialRetry ==
    /\ net.bulkRequests <= 3
    /\ net.sleeps <= 2
    /\ pc = "bulk_wait" => (attempt = net.bulkRequests /\ net.sleeps = attempt - 1)
    /\ pc = "bulk_sleep" => (attempt = net.bulkRequests /\ net.sleeps = attempt
                             /\ attempt < 3)
    /\ pc \in AfterShortening =>
          IF net.bulkRequests = 0 THEN net.sleeps = 0
          ELSE net.sleeps = net.bulkRequests - 1

\* the call raised after three attempts and two sleeps
C3_Witness ==
    /\ pc = "validate"
    /\ net.bulkRequests = 3
    /\ net.sleeps = 2
    /\ step3.bulkFailure # ""

\* The errors the claim classifies as retryable
ClaimedRetryable(error) ==
    \/ error.code \in {"ECONNRESET", "ENOTFOUND", "ETIMEDOUT", "ECONNABORTED"}
    \/ error.status >= 500
    \/ error.status = 429

\* C4: a failed attempt is followed by another attempt only if its error is
\* a connection reset, a DNS failure, a timeout, an HTTP 5xx or an HTTP 429;
\* a response body without success:true ends the call at once.
C4_RetryOnlyIfClassified ==
    pc = "bulk_sleep" => ClaimedRetryable(lastError)

\* C5: after updateWithShortUrls every link of every group has a short_url
\* that is not null, whatever the result list.
C5_ShortUrlNeverNull ==
    (fnPhase = "returned" /\ fnOutput.fn = "updateWithShortUrls") =>
        \A g \in 1..Len(fnOutput.grouped) :
            \A u \in 1..Len(fnOutput.grouped[g].urls) :
                /\ fnOutput.grouped[g].urls[u].short_url # null
                /\ Len(fnOutput.grouped[g].urls[u].short_url[1]) > 0

\* a partial success: one link got its short URL, another had no result
C5_Witness ==
    /\ fnPhase = "returned"
    /\ fnOutput.fn = "updateWithShortUrls"
    /\ fnOutput.stats.updatedCount >= 1
    /\ fnOutput.stats.failedCount >= 1
    /\ Len(fnInput.results) >= 1

RenderedStage == IF argv.dryRun THEN {"export"} ELSE {"export", "done"}

HasLinks(prospectId) ==
    \E g \in 1..Len(groupedUrls) :
        groupedUrls[g].prospect_id = prospectId /\ Len(groupedUrls[g].urls) > 0

\* C6: generateWhatsAppMessages returns one record per Prospect, in input
\* order, each with a message; a Prospect without links gets a message that
\* starts with "ERROR:" and an empty demo_urls list.
C6_OneMessagePerProspect ==
    pc \in RenderedStage =>
        /\ Len(prospectsWithMessages) = Len(prospects)
        /\ \A i \in 1..Len(prospects) :
              /\ prospectsWithMessages[i].id = prospects[i].id
              /\ prospectsWithMessages[i].company = prospects[i].company
              /\ Len(prospectsWithMessages[i].whatsapp_message) > 0
              /\ ~HasLinks(prospects[i].id) =>
                    /\ StartsWith(prospectsWithMessages[i].whatsapp_message, "ERROR:")
                    /\ prospectsWithMessages[i].demo_urls = << >>

\* two Prospects, the first rendered, the second skipped by link generation
C6_Witness ==
    /\ pc = "export"
    /\ Len(prospects) = 2
    /\ HasLinks(prospects[1].id)
    /\ ~StartsWith(prospectsWithMessages[1].whatsapp_message, "ERROR:")
    /\ ~HasLinks(prospects[2].id)

\* C7: a Prospect the Record Validator produces carries one of the three
\* canonical categories, whatever the raw business_type string was.
C7_CanonicalCategory ==
    (fnPhase = "returned" /\ fnOutput.fn = "validateAndCleanProspect"
                          /\ fnOutput.result.ok) =>
        fnOutput.result.value.business_type \in {"plumbing", "landscaping", "general"}

OtherFieldsValid(row) ==
    /\ ~FieldMissing(row, "company")
    /\ ~FieldMissing(row, "city")
    /\ ~FieldMissing(row, "phone")
    /\ cleanCompanyName(row.company).ok
    /\ cleanCityName(row.city).ok
    /\ cleanPhoneNumber(row.phone).ok

\* C8: with a fallback category supplied, a row whose business_type is
\* absent or blank and whose other fields are valid yields a Prospect of the
\* fallback category.
C8_FallbackCategoryApplied ==
    \A i \in 1..Len(csvRows) :
        (FieldMissing(csvRows[i], "business_type") /\ OtherFieldsValid(csvRows[i])) =>
            \E k \in 1..Len(prospects) :
                /\ prospects[k].original_row = i
                /\ prospects[k].business_type = argv.businessType

AllSitesParse(sites) == \A i \in 1..Len(sites) : UrlParses(sites[i].url)

\* C9: for a Prospect whose category is configured with n >= 1 valid links,
\* generateUrlsForProspect returns n LinkMappings in configured order, with
\* site_index 0..n-1 and the Prospect's id.
C9_OneMappingPerSite ==
    (fnPhase = "returned" /\ fnOutput.fn = "generateUrlsForProspect"
       /\ fnInput.prospect.business_type \in DOMAIN fnInput.config
       /\ Len(fnInput.config[fnInput.prospect.business_type].sites) >= 1
       /\ AllSitesParse(fnInput.config[fnInput.prospect.business_type].sites)) =>
        LET sites == fnInput.config[fnInput.prospect.business_type].sites
            out   == fnOutput.result
        IN  /\ out.ok
            /\ Len(out.value) = Len(sites)
            /\ \A i \in 1..Len(sites) :
                  /\ out.value[i].metadata.site_index = i - 1
                  /\ out.value[i].metadata.prospect_id = fnInput.prospect.id
                  /\ out.value[i].metadata.site_display_name = sites[i].display_name
                  /\ StartsWith(out.value[i].original_url,
                                SubSeq(sites[i].url, 1, UrlSchemeLen(sites[i].url) + 8))

\* four configured links give four LinkMappings
C9_Witness ==
    /\ fnPhase = "returned"
    /\ fnOutput.fn = "generateUrlsForProspect"
    /\ fnOutput.result.ok
    /\ Len(fnOutput.result.value) = 4
    /\ fnOutput.result.value[4].metadata.site_index = 3

\* validateAndCleanProspect applied to every delivered row, by row number
RowResults == [i \in 1..Len(csvRows) |-> validateAndCleanProspect(csvRows[i], i)]

\* C10: parseProspectsCSV handles every delivered row; its Prospects are
\* those of the passing rows, in input order, each failing row is recorded as
\* an error, and the parse fails with "No valid prospects" exactly when the
\* stream ended (the file was there and its read did not fail) and no row
\* passed.  Stated while parsing and at its outcome (resolved into step 2, or
\* rejected); no later step writes these variables.
C10_ParseKeepsPassingRows ==
    LET results == RowResults
        rows    == [i \in 1..Len(csvRows) |-> i]
        passing == SelectSeq(rows, LAMBDA i : results[i].ok)
        failing == SelectSeq(rows, LAMBDA i : ~results[i].ok)
    IN  pc \in {"parsing", "generate", "failed"} =>
        /\ rowCount = Len(csvRows)
        /\ Len(prospects) = Len(passing)
        /\ \A k \in 1..Len(passing) : prospects[k] = results[passing[k]].value
        /\ Len(errors) = Len(failing)
        /\ \A k \in 1..Len(failing) :
              errors[k] = "Row " \o ToString(failing[k]) \o ": "
                          \o results[failing[k]].message
        /\ (pc # "parsing" /\ ~StartsWith(net.message, "CSV parsing error")
                           /\ ~StartsWith(net.message, "CSV file not found")) =>
              ((pc = "failed" /\ net.message = "No valid prospects found in CSV file")
                 <=> Len(passing) = 0)

\* the parse resolved with the second row's Prospect after the first row failed
C10_Witness ==
    /\ pc = "generate"
    /\ Len(csvRows) = 2
    /\ Len(errors) = 1
    /\ StartsWith(errors[1], "Row 1: ")
    /\ Len(prospects) = 1
    /\ prospects[1].original_row = 2

ValidatorReturned ==
    /\ fnPhase = "returned"
    /\ fnOutput.fn = "validateAndCleanProspect"

\* The id the data model gives the row at position k
ExpectedId(k) ==
    "prospect_"
    \o (IF k < 10 THEN "000" ELSE IF k < 100 THEN "00" ELSE IF k < 1000 THEN "0" ELSE "")
    \o ToString(k)

\* C11: the Prospect built from the row at position k has the id 'prospect_'
\* followed by k zero-padded to at least 4 digits, and no other row position
\* gives the same id, also beyond 9999.
C11_IdFromRowPosition ==
    (ValidatorReturned /\ fnOutput.result.ok) =>
        /\ fnOutput.result.value.id = ExpectedId(fnInput.rowNumber)
        /\ fnOutput.result.value.original_row = fnInput.rowNumber
        /\ \A k \in RowNumberSamples \ {fnInput.rowNumber} :
              ProspectId(k) # fnOutput.result.value.id

\* the row at position 10000 became a Prospect
C11_Witness ==
    /\ ValidatorReturned
    /\ fnOutput.result.ok
    /\ fnInput.rowNumber = 10000
    /\ fnOutput.result.value.id = "prospect_10000"

JoinReturned ==
    /\ fnPhase = "returned"
    /\ fnOutput.fn = "updateWithShortUrls"

\* ShortenResult of the data model: data.shortUrl is present when success
SuccessCarriesShortUrl(results) ==
    \A i \in 1..Len(results) :
        results[i].success => (results[i].hasData /\ results[i].data.shortUrl # "")

\* Short URLs of the successful results for a URL
SuccessfulShortUrls(results, url) ==
    { results[i].data.shortUrl :
        i \in { j \in 1..Len(results) :
                  results[j].success /\ results[j].original_url = url } }

\* C12: updateWithShortUrls takes short URLs only from successful results; a
\* link with a successful result for its original_url gets that result's
\* shortUrl, any other link gets its own original_url; failedCount is the
\* number of links without a successful result and updatedCount +
\* failedCount is the number of links.
C12_JoinLookup ==
    (JoinReturned /\ SuccessCarriesShortUrl(fnInput.results)) =>
        LET urls   == AllUrls(fnOutput.grouped)
            missed == { u \in 1..Len(urls) :
                          SuccessfulShortUrls(fnInput.results, urls[u].original_url) = {} }
        IN  /\ Len(urls) = Len(fnInput.mappings)
            /\ \A u \in 1..Len(urls) :
                  IF u \in missed
                  THEN urls[u].short_url = Some(urls[u].original_url)
                  ELSE /\ urls[u].short_url # null
                       /\ urls[u].short_url[1] \in
                             SuccessfulShortUrls(fnInput.results, urls[u].original_url)
            /\ fnOutput.stats.failedCount = Cardinality(missed)
            /\ fnOutput.stats.updatedCount + fnOutput.stats.failedCount = Len(urls)

\* one link was shortened, another had only a failed result carrying data
C12_Witness ==
    /\ JoinReturned
    /\ SuccessCarriesShortUrl(fnInput.results)
    /\ fnOutput.stats.updatedCount >= 1
    /\ fnOutput.stats.failedCount >= 1
    /\ \E i \in 1..Len(fnInput.results) :
          /\ ~fnInput.results[i].success
          /\ fnInput.results[i].hasData
          /\ fnInput.results[i].original_url \in MappedUrls(fnInput.mappings)
          /\ SuccessfulShortUrls(fnInput.results, fnInput.results[i].original_url) = {}

BulkReturned ==
    /\ fnPhase = "returned"
    /\ fnOutput.fn = "bulkUploadToShortener"

\* Attempt i failed with an error the retry policy names as retryable
RetryableFailure(outcome) ==
    outcome.kind = "error" /\ ClaimedRetryable(outcome.error)

\* Attempt i was answered with a conforming body (success and a result list)
ConformingSuccess(outcome) ==
    /\ outcome.kind = "response"
    /\ outcome.body.isObject /\ outcome.body.success
    /\ outcome.body.resultsKind = "array" /\ ~outcome.body.hasNull

\* C13: when attempts 1..k-1 fail with retryable errors and attempt k
\* succeeds, bulkUploadToShortener returns attempt k's result list after
\* k requests and k-1 retry delays; so 503, 503, success returns the third
\* payload after two delays.
C13_SuccessAfterRetries ==
    BulkReturned =>
        \A k \in 1..MAX_RETRIES :
            ( /\ \A i \in 1..(k - 1) : RetryableFailure(fnInput.outcomes[i])
              /\ ConformingSuccess(fnInput.outcomes[k]) ) =>
                /\ fnOutput.result.returned
                /\ fnOutput.result.results = fnInput.outcomes[k].body.list
                /\ fnOutput.result.requests = k
                /\ fnOutput.result.sleeps = k - 1
                /\ fnOutput.result.waitedMs = (k - 1) * 2000

\* HTTP 503 twice, then the full result list
C13_Witness ==
    /\ BulkReturned
    /\ \A i \in 1..2 : /\ fnInput.outcomes[i].kind = "error"
                       /\ fnInput.outcomes[i].error.status = 503
    /\ ConformingSuccess(fnInput.outcomes[3])
    /\ Len(fnInput.outcomes[3].body.list) = Len(fnInput.mappings)
    /\ fnOutput.result.results = fnInput.outcomes[3].body.list
    /\ fnOutput.result.returned
    /\ fnOutput.result.sleeps = 2

\* The message of the error attempt i ends with
AttemptErrorMessage(outcome) ==
    IF outcome.kind = "error" THEN outcome.error.message
    ELSE "Bulk upload failed: " \o
         (IF outcome.body.error # "" THEN outcome.body.error ELSE "Unknown error")

\* C14: when bulkUploadToShortener throws after at least one attempt, the
\* thrown message carries the message of the error of the last attempt made,
\* not of an earlier one.
C14_LastErrorMessage ==
    (BulkReturned /\ ~fnOutput.result.returned /\ fnOutput.result.requests >= 1) =>
        fnOutput.result.message =
            "Bulk upload failed: "
            \o AttemptErrorMessage(fnInput.outcomes[fnOutput.result.requests])

\* three attempts failed with three different errors
C14_Witness ==
    /\ BulkReturned
    /\ ~fnOutput.result.returned
    /\ fnOutput.result.requests = 3
    /\ fnInput.outcomes[1].kind = "error" /\ fnInput.outcomes[1].error.status = 503
    /\ fnInput.outcomes[2].kind = "error" /\ fnInput.outcomes[2].error.code = "ECONNRESET"
    /\ fnInput.outcomes[3].kind = "error" /\ fnInput.outcomes[3].error.status = 429
    /\ fnOutput.result.message = "Bulk upload failed: Request failed with status code 429"

\* The failure the Link Generator's contract names for a Prospect, "" if none
LinkFailure(prospect, config) ==
    IF prospect.business_type \notin DOMAIN config
    THEN "No configuration found for business type: "
    ELSE IF Len(config[prospect.business_type].sites) = 0
    THEN "No demo sites configured for business type: "
    ELSE IF ~AllSitesParse(config[prospect.business_type].sites)
    THEN "Invalid base URL: "
    ELSE ""

\* C15: generateUrlsForProspect fails with UnknownCategory, NoLinksConfigured
\* or InvalidBaseURL under the three conditions and otherwise returns its
\* links; in generateDemoUrls a failing Prospect contributes no LinkMapping
\* at all and every other Prospect its full link set, in input order.
C15_LinkFailuresSkipProspect ==
    /\ (fnPhase = "returned" /\ fnOutput.fn = "generateUrlsForProspect") =>
          LET failure == LinkFailure(fnInput.prospect, fnInput.config)
          IN  IF failure = "" THEN fnOutput.result.ok
              ELSE /\ ~fnOutput.result.ok
                   /\ StartsWith(fnOutput.result.message, failure)
    /\ (fnPhase = "returned" /\ fnOutput.fn = "generateDemoUrls") =>
          LET ps   == fnInput.prospects
              own  == [i \in 1..Len(ps) |->
                         SelectSeq(fnOutput.result,
                                   LAMBDA m : m.metadata.prospect_id = ps[i].id)]
          IN  /\ fnOutput.result = Flatten(own)
              /\ \A i \in 1..Len(ps) :
                    IF LinkFailure(ps[i], fnInput.config) # ""
                    THEN own[i] = << >>
                    ELSE /\ Len(own[i]) =
                              Len(fnInput.config[ps[i].business_type].sites)
                         /\ \A k \in 1..Len(own[i]) :
                               own[i][k].metadata.site_index = k - 1

\* the second of three Prospects failed on a bad base URL after a good one,
\* the third had no links configured; only the first one's link is listed
C15_Witness ==
    /\ fnPhase = "returned"
    /\ fnOutput.fn = "generateDemoUrls"
    /\ Len(fnInput.prospects) = 3
    /\ LinkFailure(fnInput.prospects[1], fnInput.config) = ""
    /\ LinkFailure(fnInput.prospects[2], fnInput.config) = "Invalid base URL: "
    /\ UrlParses(fnInput.config[fnInput.prospects[2].business_type].sites[1].url)
    /\ LinkFailure(fnInput.prospects[3], fnInput.config)
          = "No demo sites configured for business type: "
    /\ Len(fnOutput.result) = 1

GroupReturned ==
    /\ fnPhase = "returned"
    /\ fnOutput.fn = "groupUrlsByProspect"

MappingIds(mappings) == {mappings[i].metadata.prospect_id : i \in 1..Len(mappings)}

\* C16: groupUrlsByProspect has one group per prospect id of the flat list
\* and none for any other prospect; a group's urls are the prospect's
\* mappings in encounter order, with site_index ascending from 0 and as many
\* as the category has configured links, and every short_url is null.
C16_GroupingPartitions ==
    GroupReturned =>
        LET grouped  == fnOutput.result
            mappings == fnInput.mappings
        IN  /\ Len(grouped) = Cardinality(MappingIds(mappings))
            /\ {grouped[g].prospect_id : g \in 1..Len(grouped)} = MappingIds(mappings)
            /\ \A g \in 1..Len(grouped) :
                  LET mine == SelectSeq(mappings,
                                 LAMBDA m : m.metadata.prospect_id = grouped[g].prospect_id)
                      urls == grouped[g].urls
                  IN  /\ Len(urls) = Len(mine)
                      /\ Len(urls) >= 1
                      /\ Len(urls) = Len(fnInput.config[grouped[g].business_type].sites)
                      /\ \A k \in 1..Len(urls) :
                            /\ urls[k].original_url = mine[k].original_url
                            /\ urls[k].display_name = mine[k].metadata.site_display_name
                            /\ urls[k].site_index = mine[k].metadata.site_index
                            /\ urls[k].site_index = k - 1
                            /\ urls[k].short_url = null

\* the alternating links of two Prospects ended up in two groups of four
C16_Witness ==
    /\ GroupReturned
    /\ Len(fnInput.mappings) = 8
    /\ fnInput.mappings[1].metadata.prospect_id # fnInput.mappings[2].metadata.prospect_id
    /\ Len(fnOutput.result) = 2
    /\ Len(fnOutput.result[1].urls) = 4
    /\ Len(fnOutput.result[2].urls) = 4

RenderReturned ==
    /\ fnPhase = "returned"
    /\ fnOutput.fn = "generateMessageForProspect"
    /\ fnOutput.result.ok

\* The override bundle of the Prospect's category, empty if there is none
OverrideBundle(prospect, tpl) ==
    IF prospect.business_type \in DOMAIN tpl.business_type_customization
    THEN tpl.business_type_customization[prospect.business_type]
    ELSE [none |-> ""]

\* C17: each of the three parts of the rendered message comes from the
\* category's override bundle when the bundle defines it and from the
\* default template otherwise: the message starts with the chosen greeting,
\* contains the chosen introduction and contains the chosen link-section
\* header.
C17_OverridesPreferred ==
    RenderReturned =>
        LET base   == fnInput.templates.whatsapp
            bundle == OverrideBundle(fnInput.prospect, fnInput.templates)
            p      == fnInput.prospect
        IN  /\ StartsWith(fnOutput.result.value,
                          replaceTemplateVariables(
                              OrElse(bundle, "greeting", base.greeting),
                              << <<"company", p.company>> >>))
            /\ Includes(fnOutput.result.value,
                        replaceTemplateVariables(
                            OrElse(bundle, "intro", base.intro),
                            << <<"business_type", p.business_type>>,
                               <<"city", p.city>> >>))
            /\ Includes(fnOutput.result.value,
                        OrElse(bundle, "demo_section_header", base.demo_section_header))

\* Every occurrence of pat in s replaced by the text value as it is
RECURSIVE ReplaceLiteral(_, _, _, _)
ReplaceLiteral(s, pat, value, from) ==
    LET i == NextMatch(s, pat, from)
    IN  IF i = 0 THEN SubSeq(s, from, Len(s))
        ELSE SubSeq(s, from, i - 1) \o value \o ReplaceLiteral(s, pat, value, i + Len(pat))

RECURSIVE Substitute(_, _)
Substitute(template, variables) ==
    IF variables = << >> THEN template
    ELSE Substitute(ReplaceLiteral(template, "{" \o variables[1][1] \o "}",
                                   variables[1][2], 1),
                    Tail(variables))

Placeholders == {"{company}", "{city}", "{business_type}", "{display_name}", "{short_url}"}

\* C18: in the greeting, the introduction and every link line, each
\* placeholder is replaced by the value of the Prospect or link as it is, so
\* the message holds no placeholder and is made of the templates with the
\* values put in.
C18_PlaceholdersReplaced ==
    RenderReturned =>
        LET base   == fnInput.templates.whatsapp
            bundle == OverrideBundle(fnInput.prospect, fnInput.templates)
            p      == fnInput.prospect
            ofProspect == << <<"company", p.company>>, <<"city", p.city>>,
                             <<"business_type", p.business_type>> >>
            line(url)  == Substitute(base.demo_link_format,
                              ofProspect \o << <<"display_name", url.display_name>>,
                                               <<"short_url", url.short_url[1]>> >>)
            parts  == << Substitute(base.greeting, ofProspect),
                         Substitute(OrElse(bundle, "intro", base.intro), ofProspect),
                         Join([k \in 1..Len(fnInput.urls) |-> line(fnInput.urls[k])],
                              "\\n") >>
        IN  /\ \A ph \in Placeholders : ~Includes(fnOutput.result.value, ph)
            /\ fnOutput.result.value = Join(parts, "\\n\\n")

\* A column that is absent, empty or made of whitespace only
Blank(row, field) ==
    \/ field \notin DOMAIN row
    \/ \A i \in 1..Len(row[field]) : IsSpace(Char(row[field], i))

MissingOf(row) ==
    SelectSeq(<< "company", "city", "phone", "business_type" >>,
              LAMBDA field : Blank(row, field))

\* C19: a row with required columns missing or blank fails with one
\* 'Missing required fields' error that names every such column, whatever
\* the other columns hold.
C19_MissingFieldsNamed ==
    (ValidatorReturned /\ MissingOf(fnInput.row) # << >>) =>
        /\ ~fnOutput.result.ok
        /\ fnOutput.result.message =
              "Missing required fields: " \o Join(MissingOf(fnInput.row), ", ")

\* company and city blank, phone too short and category unknown: only the
\* two missing fields are reported
C19_Witness ==
    /\ ValidatorReturned
    /\ fnInput.row = Row("   ", "", "555-1234", "hvac")
    /\ fnOutput.result.message = "Missing required fields: company, city"

DigitCount(s) == Cardinality({ i \in 1..Len(s) : IsDigit(Char(s, i)) })

-----------------------------------------------------------------------------
(* The connectivity probe                                                  *)

\* testShortenerConnection is returning its report to main
ProbeReturning == pc = "probed"

\* C21: the probe reports reachable exactly for an answer with a status
\* below 500, unreachable for a 5xx status or no answer; after an unreachable
\* report no bulk request is ever sent and the results handed on are the
\* fallback results; a bulk request is sent only after a reachable report.
C21_ProbeGatesBulkCall ==
    /\ ProbeReturning =>
          /\ step3.connectionOk \in {"ok", "failed"}
          /\ step3.connectionOk = "ok" <=> step3.probeStatus \in 1..499
    /\ pc \in {"bulk_wait", "bulk_sleep"} => step3.connectionOk = "ok"
    /\ step3.connectionOk # "ok" => net.bulkRequests = 0
    /\ (step3.connectionOk = "failed" /\ pc \in AfterShortening) =>
          shortenedResults = createFallbackResults(urlMappings)
    /\ net.bulkRequests > 0 => (net.probes = 1 /\ step3.connectionOk = "ok")

\* the probe was reported unreachable, and the run exported its rows from
\* fallback results without any bulk request
C21_Witness ==
    /\ pc = "done"
    /\ net.probes = 1
    /\ step3.connectionOk = "failed"
    /\ net.bulkRequests = 0
    /\ Len(exported) >= 1
    /\ \A i \in 1..Len(shortenedResults) : shortenedResults[i].fallback

-----------------------------------------------------------------------------
(* Link generation is a function of the Prospect and the configuration     *)

\* The links of one Prospect in a flat list
LinksOf(mappings, prospect) ==
    SelectSeq(mappings, LAMBDA m : m.metadata.prospect_id = prospect.id)

\* C22: the links generated for a Prospect are the same whenever the
\* Prospect and the configuration are the same: inside any batch, at any
\* position and after any other Prospects, they are the links a batch of
\* that Prospect alone gets and the links generateUrlsForProspect returns,
\* original_url and metadata alike; two rows with the same content get the
\* same original_url sequence.
C22_LinkGenerationDeterministic ==
    /\ (fnPhase = "returned" /\ fnOutput.fn = "generateDemoUrls") =>
          \A i \in 1..Len(fnInput.prospects) :
             LET p     == fnInput.prospects[i]
                 alone == generateUrlsForProspect(p, fnInput.config)
             IN  /\ LinksOf(fnOutput.result, p)
                       = generateDemoUrls(<< p >>, fnInput.config)
                 /\ LinksOf(fnOutput.result, p)
                       = (IF alone.ok THEN alone.value ELSE << >>)
    /\ (fnPhase = "returned" /\ fnOutput.fn = "generateUrlsForProspect"
            /\ fnOutput.result.ok) =>
          \A q \in ProspectSamples :
             (/\ q.company = fnInput.prospect.company
              /\ q.city = fnInput.prospect.city
              /\ q.phone = fnInput.prospect.phone
              /\ q.business_type = fnInput.prospect.business_type) =>
                LET again == generateUrlsForProspect(q, fnInput.config)
                IN  /\ again.ok
                    /\ Len(again.value) = Len(fnOutput.result.value)
                    /\ \A k \in 1..Len(again.value) :
                          /\ again.value[k].original_url
                                = fnOutput.result.value[k].original_url
                          /\ again.value[k].metadata.site_index
                                = fnOutput.result.value[k].metadata.site_index

\* a Prospect with two links was generated after another Prospect that got
\* a link of its own
C22_Witness ==
    /\ fnPhase = "returned"
    /\ fnOutput.fn = "generateDemoUrls"
    /\ Len(fnInput.prospects) >= 2
    /\ Len(LinksOf(fnOutput.result, fnInput.prospects[1])) >= 1
    /\ Len(LinksOf(fnOutput.result, fnInput.prospects[2])) = 2
    /\ LinksOf(fnOutput.result, fnInput.prospects[2])[2].metadata.site_index = 1

-----------------------------------------------------------------------------
(* Exit codes                                                              *)

\* The run did all it was asked to do: a dry run finished validation with at
\* least one Prospect, or the export was written.
RunCompleted ==
    /\ pc = "done"
    /\ Len(prospects) >= 1
    /\ argv.dryRun \/ exported = exportToCsv(prospectsWithMessages)

\* C23: the process ends with exit code 0 only when the run completed (the
\* export written, or a dry run through validation), and every run that
\* ended on a failure (missing input file, read failure, no valid row) has a
\* non-zero exit code.
C23_ExitZeroOnlyWhenCompleted ==
    /\ net.exitCode = 0 => RunCompleted
    /\ pc = "failed" => net.exitCode > 0

-----------------------------------------------------------------------------
(* The dry-run flag                                                        *)

\* C24: in a run with the dry-run flag main never gets past validation: no
\* link is generated or grouped, no probe and no bulk request is sent, no
\* message is rendered and no row is exported, in any state of the run.
C24_DryRunStopsAfterValidation ==
    argv.dryRun =>
        /\ pc \in {"parsing", "done", "failed", "interrupted"}
        /\ urlMappings = << >>
        /\ groupedUrls = << >>
        /\ net.probes = 0
        /\ net.bulkRequests = 0
        /\ shortenedResults = << >>
        /\ prospectsWithMessages = << >>
        /\ exported = << >>

\* a dry run ended with exit code 0 after validating two rows, one of which
\* passed
C24_Witness ==
    /\ argv.dryRun
    /\ pc = "done"
    /\ net.exitCode = 0
    /\ Len(csvRows) = 2
    /\ Len(prospects) = 1
    /\ Len(errors) = 1

-----------------------------------------------------------------------------
(* What bulkUploadToShortener returns                                      *)

\* the call returned a result list (it did not throw)
BulkReturnedNormally == BulkReturned /\ fnOutput.result.returned

\* the answer to the attempt the call returned from
ReturningAnswer == fnInput.outcomes[fnOutput.result.requests]

\* C25: bulkUploadToShortener returns normally only from a conforming
\* response, one with success:true and a results list; a response without
\* success:true, or with success:true and no or a malformed results list,
\* fails its attempt.
C25_NonConformingFailsAttempt ==
    BulkReturnedNormally => ConformingSuccess(ReturningAnswer)

\* C26: when bulkUploadToShortener returns normally, the list it returns
\* has one result per submitted LinkMapping: as many results as links.
C26_OneResultPerLink ==
    BulkReturnedNormally => Len(fnOutput.result.results) = Len(fnInput.mappings)

-----------------------------------------------------------------------------
(* Several results for one original_url                                    *)

\* Positions of the successful results for a URL in the result list
SuccessfulFor(results, url) ==
    { j \in 1..Len(results) : results[j].success /\ results[j].original_url = url }

\* C27: when successful results for one original_url carry different short
\* URLs, all links with that original_url, in whatever group, get the same
\* short URL, and it is that of the first such result in the list.
C27_FirstResultWins ==
    (JoinReturned /\ SuccessCarriesShortUrl(fnInput.results)) =>
        LET urls == AllUrls(fnOutput.grouped)
        IN  \A u \in 1..Len(urls) :
               LET hits == SuccessfulFor(fnInput.results, urls[u].original_url)
               IN  hits # {} =>
                     /\ urls[u].short_url
                           = Some(fnInput.results[Least(hits)].data.shortUrl)
                     /\ \A v \in 1..Len(urls) :
                           urls[v].original_url = urls[u].original_url =>
                              urls[v].short_url = urls[u].short_url

-----------------------------------------------------------------------------
(* The layout of a rendered message                                        *)

\* The separators the renderer joins with: between link lines, and between
\* the parts of the message
LineSeparator == "\\n"
PartSeparator == "\\n\\n"

\* A part that is empty or made of whitespace only
BlankPart(part) == \A i \in 1..Len(part) : IsSpace(Char(part, i))

\* Number of places at which pat occurs in s
Occurrences(s, pat) ==
    Cardinality({ i \in 1..(Len(s) - Len(pat) + 1) : SubSeq(s, i, i + Len(pat) - 1) = pat })

EndsWith(s, suffix) ==
    /\ Len(s) >= Len(suffix)
    /\ SubSeq(s, Len(s) - Len(suffix) + 1, Len(s)) = suffix

-----------------------------------------------------------------------------
(* Prospects after validation                                              *)

ProspectFields == {"id", "company", "city", "phone", "business_type"}

\* the record r carries the fields of the Prospect p that it also has
SameProspectFields(r, p) ==
    \A f \in ProspectFields \cap DOMAIN r : r[f] = p[f]

\* C29: once parsing is over no step changes the list of Prospects or any
\* field of a Prospect; the renderer's records are new records, one per
\* Prospect, with the Prospect's id, company, city, phone and business_type
\* and the two added fields; each exported row has the company, city, phone
\* and business_type of the validated Prospect it was made from.
C29_ProspectsImmutable ==
    /\ [][ pc # "parsing" => prospects' = prospects ]_vars
    /\ [][ prospectsWithMessages # prospectsWithMessages' =>
             /\ Len(prospectsWithMessages') = Len(prospects)
             /\ \A i \in 1..Len(prospects) :
                   /\ SameProspectFields(prospectsWithMessages'[i], prospects[i])
                   /\ ProspectFields \subseteq DOMAIN prospectsWithMessages'[i]
                   /\ {"whatsapp_message", "demo_urls"}
                         \subseteq DOMAIN prospectsWithMessages'[i]
                   /\ {"whatsapp_message", "demo_urls"} \cap DOMAIN prospects[i] = {} ]_vars
    /\ [][ exported # exported' =>
             /\ Len(exported') = Len(prospects)
             /\ \A i \in 1..Len(prospects) :
                   /\ SameProspectFields(exported'[i], prospects[i])
                   /\ ProspectFields \ {"id"} \subseteq DOMAIN exported'[i] ]_vars

\* two Prospects were rendered and exported; the first one's phone keeps
\* its punctuation in the export
C29_Witness ==
    /\ pc = "done"
    /\ Len(prospects) = 2
    /\ Len(exported) = 2
    /\ exported[1].phone = "(555) 123-4567"
    /\ prospects[1].phone = "(555) 123-4567"
    /\ prospectsWithMessages[2].id = "prospect_0002"

-----------------------------------------------------------------------------
(* The skip-shortener flag                                                 *)

\* C30: in a run with the skip-shortener flag no request is ever sent to the
\* shortening service, neither the probe nor a bulk attempt; the join counts
\* no failed link and gives every link its own original_url as short_url,
\* and so do the links of the rendered records that are exported.
C30_SkipShortenerSendsNothing ==
    argv.skipShortener =>
        /\ net.probes = 0
        /\ net.bulkRequests = 0
        /\ net.sleeps = 0
        /\ pc \notin {"probe", "probed", "bulk_wait", "bulk_sleep"}
        /\ pc \in {"render", "export", "done"} =>
              /\ joinStats.failedCount = 0
              /\ joinStats.updatedCount = Len(urlMappings)
              /\ \A g \in 1..Len(groupedUrls) :
                    \A u \in 1..Len(groupedUrls[g].urls) :
                       groupedUrls[g].urls[u].short_url
                         = Some(groupedUrls[g].urls[u].original_url)
        /\ pc \in {"export", "done"} =>
              \A i \in 1..Len(prospectsWithMessages) :
                 LET g == GroupIndex(groupedUrls, prospectsWithMessages[i].id)
                     links == prospectsWithMessages[i].demo_urls
                 IN  \A k \in 1..Len(links) :
                        /\ g # 0
                        /\ k <= Len(groupedUrls[g].urls)
                        /\ links[k].short_url
                              = Some(groupedUrls[g].urls[k].original_url)

\* a run with the flag exported a Prospect with two links, each under its
\* original URL, without having sent a request
C30_Witness ==
    /\ argv.skipShortener
    /\ pc = "done"
    /\ net.exitCode = 0
    /\ net.probes = 0
    /\ Len(exported) >= 1
    /\ Len(prospectsWithMessages[1].demo_urls) = 2
    /\ prospectsWithMessages[1].demo_urls[2].short_url
          = Some(groupedUrls[1].urls[2].original_url)
    /\ joinStats.updatedCount >= 2

====
